---- MODULE Spec2Model ----
(***************************************************************************)
(* Vocabulary flashcards: the card reducer (CardContext), its selectors    *)
(* and the LocalStorage persistence adapter, as one state machine.         *)
(*                                                                         *)
(* In-memory values are modelled natively (strings, booleans, sequences);  *)
(* a card is a record holding exactly the properties the JavaScript object *)
(* has, so an optional field is a key that is present or not.  What is     *)
(* stored under a LocalStorage key is a string, modelled by what           *)
(* JSON.parse makes of it: a SyntaxError or a tagged JSON value.           *)
(***************************************************************************)
EXTENDS Integers, Sequences, FiniteSets, TLC

VARIABLES pc, cards, filter, currentCardIndex, nextId, localStorage,
          faults, thrown, last, tab2, rawText, parsed, speech

vars == <<pc, cards, filter, currentCardIndex, nextId, localStorage,
          faults, thrown, last, tab2, rawText, parsed, speech>>

---------------------------------------------------------------------------
(* Bounds of the model                                                     *)

MaxCards == 2
MaxId == 2
MaxFaults == 1
MaxStored == 2
MaxTextLen == 4
MaxEntries == 3
MaxDeck == 40
MaxUtterances == 3

---------------------------------------------------------------------------
(* Program constants                                                       *)

STORAGE_KEY == <<"flashcards-app-data">>
CURRENT_VERSION == "1.0"

Filters == {"all", "needsReview"}

---------------------------------------------------------------------------
(* Generic helpers                                                         *)

Max(a, b) == IF a >= b THEN a ELSE b
Min(a, b) == IF a <= b THEN a ELSE b

\* Array.prototype.filter
RECURSIVE SelectSeq2(_, _)
SelectSeq2(s, keep) ==
  IF s = <<>> THEN <<>>
  ELSE IF Head(s) \in keep THEN <<Head(s)>> \o SelectSeq2(Tail(s), keep)
       ELSE SelectSeq2(Tail(s), keep)

Range(s) == {s[i] : i \in 1..Len(s)}

\* Object spread {...a, ...b}: the keys of both, b winning
Spread(a, b) ==
  [k \in (DOMAIN a) \cup (DOMAIN b) |-> IF k \in DOMAIN b THEN b[k] ELSE a[k]]

\* a generator that returns the same id again
randomUUID_Repeating(n) == ToString(1)

\* crypto.randomUUID(): a value never returned before
randomUUID(n) == ToString(n)

\* new Date().toISOString() / Date.now(): a logical clock that ticks with
\* every generated id
toISOString(n) == ToString(n)

---------------------------------------------------------------------------
(* JSON values: [t |-> type, v |-> content]                                *)

JUndefined == [t |-> "undefined"]
JNull == [t |-> "null"]
JString(s) == [t |-> "string", v |-> s]
JBoolean(b) == [t |-> "boolean", v |-> b]
JArray(s) == [t |-> "array", v |-> s]
JObject(o) == [t |-> "object", v |-> o]

\* typeof x
typeof(j) == IF j.t \in {"null", "array"} THEN "object" ELSE j.t

\* ToBoolean(x), as `card.id && ...` and `!raw` use it
Truthy(j) ==
  CASE j.t = "string" -> j.v # ""
    [] j.t = "boolean" -> j.v
    [] j.t \in {"undefined", "null"} -> FALSE
    [] OTHER -> TRUE

\* obj.key on a parsed JSON object: undefined when the key is missing
Get(j, k) == IF j.t = "object" /\ k \in DOMAIN j.v THEN j.v[k] ELSE JUndefined

\* JSON.stringify of one in-memory value; the field decides its type
ValueToJSON(k, x) ==
  CASE k = "mastered" -> JBoolean(x)
    [] k = "exampleSentences" -> JArray([i \in 1..Len(x) |-> JString(x[i])])
    [] OTHER -> JString(x)

\* JSON.stringify of a card: every own property, none added
CardToJSON(card) == JObject([k \in DOMAIN card |-> ValueToJSON(k, card[k])])

\* The in-memory value JSON.parse builds for one JSON value
JSONToValue(j) ==
  IF j.t = "array" THEN [i \in 1..Len(j.v) |-> j.v[i].v] ELSE j.v

\* The in-memory object JSON.parse builds for a JSON object
JSONToCard(j) == [k \in DOMAIN j.v |-> JSONToValue(j.v[k])]

---------------------------------------------------------------------------
(* What a storage key holds.  getItem returns null for a missing key,      *)
(* otherwise a string, of which only the outcome of JSON.parse matters.    *)

Missing == [kind |-> "missing"]
EmptyString == [kind |-> "empty"]
Malformed == [kind |-> "malformed", text |-> "invalid json"]
JSONText(j) == [kind |-> "json", value |-> j]

\* JSON.stringify(data) of the envelope { version, cards, lastModified }
JSONstringify(data) ==
  JSONText(JObject([version |-> JString(data.version),
                    cards |-> JArray([i \in 1..Len(data.cards) |->
                                        CardToJSON(data.cards[i])]),
                    lastModified |-> JString(data.lastModified)]))

\* Keys used by the adapter: the main key and the keys
\* `${STORAGE_KEY}-corrupted-${Date.now()}`
backupKey(now) == <<"flashcards-app-data", "corrupted", ToString(now)>>
StorageKeys == {STORAGE_KEY} \cup {backupKey(n) : n \in 1..(MaxId + 1)}

\* The keys `${STORAGE_KEY}-backup-${Date.now()}` of clearAllData
clearBackupKey(now) == <<"flashcards-app-data", "backup", ToString(now)>>
ClearKeys == {clearBackupKey(n) : n \in 1..(MaxId + 1)}

getItem(ls, key) == ls[key]
setItem(ls, key, value) == [ls EXCEPT ![key] = value]
removeItem(ls, key) == [ls EXCEPT ![key] = Missing]

\* How the browser answers the storage calls of one adapter call:
\*   ok        every call succeeds
\*   quota     setItem throws DOMException QuotaExceededError
\*   security  every access throws DOMException SecurityError
\*   other     every access throws something else
StorageModes == {"ok", "quota", "security", "other"}

\* Errors that escape an adapter call
NoError == [name |-> "none", message |-> "", count |-> -1]
QuotaError(n) ==
  [name |-> "Error", message |-> "Storage limit exceeded", count |-> n]
DisabledError ==
  [name |-> "Error", message |-> "Browser storage is disabled", count |-> -1]
UnknownError == [name |-> "unknown", message |-> "", count |-> -1]
TypeError == [name |-> "TypeError", message |-> "", count |-> -1]

---------------------------------------------------------------------------
(* useLocalStorage.ts                                                      *)

\* migrateData: only v1.0 exists, unknown versions are discarded
migrateData(data) == <<>>

\* isValid with `card.mastered &&` in place of the typeof test
isValid_TruthyMastered(card) ==
  /\ Truthy(Get(card, "id"))
  /\ typeof(Get(card, "term")) = "string"
  /\ typeof(Get(card, "definition")) = "string"
  /\ Truthy(Get(card, "mastered"))
  /\ typeof(Get(card, "createdAt")) = "string"

\* the validity test of the filter callback in loadFromLocalStorage
isValid(card) ==
  /\ Truthy(Get(card, "id"))
  /\ typeof(Get(card, "term")) = "string"
  /\ typeof(Get(card, "definition")) = "string"
  /\ typeof(Get(card, "mastered")) = "boolean"
  /\ typeof(Get(card, "createdAt")) = "string"

\* the try block of loadFromLocalStorage: [exc, value]
loadTry(ls, mode) ==
  LET raw == getItem(ls, STORAGE_KEY) IN
  IF mode = "security" THEN [exc |-> "SecurityError", value |-> <<>>]
  ELSE IF mode = "other" THEN [exc |-> "unknown", value |-> <<>>]
  ELSE IF raw.kind \in {"missing", "empty"} THEN [exc |-> "none", value |-> <<>>]
  ELSE IF raw.kind = "malformed" THEN [exc |-> "SyntaxError", value |-> <<>>]
  ELSE LET data == raw.value IN
    IF data.t \in {"null", "undefined"}
      THEN [exc |-> "TypeError", value |-> <<>>]
    ELSE IF Get(data, "version") # JString(CURRENT_VERSION)
      THEN [exc |-> "none", value |-> migrateData(data)]
    ELSE IF Get(data, "cards").t # "array"
      THEN [exc |-> "none", value |-> <<>>]
    ELSE LET entries == Get(data, "cards").v IN
      IF \E i \in 1..Len(entries) : entries[i].t \in {"null", "undefined"}
        THEN [exc |-> "TypeError", value |-> <<>>]
      ELSE LET valid == SelectSeq2(entries, {e \in Range(entries) : isValid(e)})
           IN [exc |-> "none",
               value |-> [i \in 1..Len(valid) |-> JSONToCard(valid[i])]]

\* loadFromLocalStorage without the backup of a corrupted payload
loadFromLocalStorage_NoBackup(ls, mode, now) ==
  LET try == loadTry(ls, mode) IN
  IF try.exc = "none" THEN [cards |-> try.value, ls |-> ls, thrown |-> NoError]
  ELSE [cards |-> <<>>, ls |-> ls, thrown |-> NoError]

\* loadFromLocalStorage whose catch rethrows what it does not recognise
loadFromLocalStorage_Rethrow(ls, mode, now) ==
  LET try == loadTry(ls, mode) IN
  IF try.exc = "none" THEN [cards |-> try.value, ls |-> ls, thrown |-> NoError]
  ELSE IF try.exc = "SyntaxError" THEN
    LET raw == getItem(ls, STORAGE_KEY) IN
    [cards |-> <<>>,
     ls |-> IF raw.kind \notin {"missing", "empty"} /\ mode = "ok"
              THEN setItem(ls, backupKey(now), raw) ELSE ls,
     thrown |-> NoError]
  ELSE IF try.exc = "SecurityError"
    THEN [cards |-> <<>>, ls |-> ls, thrown |-> NoError]
  ELSE [cards |-> <<>>, ls |-> ls,
        thrown |-> IF try.exc = "TypeError" THEN TypeError ELSE UnknownError]

\* loadFromLocalStorage(): [cards, ls, thrown]
loadFromLocalStorage(ls, mode, now) ==
  LET try == loadTry(ls, mode) IN
  IF try.exc = "none" THEN [cards |-> try.value, ls |-> ls, thrown |-> NoError]
  ELSE IF try.exc = "SyntaxError" THEN
    LET raw == getItem(ls, STORAGE_KEY) IN
    [cards |-> <<>>,
     ls |-> IF raw.kind \notin {"missing", "empty"} /\ mode = "ok"
              THEN setItem(ls, backupKey(now), raw) ELSE ls,
     thrown |-> NoError]
  ELSE [cards |-> <<>>, ls |-> ls, thrown |-> NoError]

\* saveToLocalStorage writing a version tag the loader does not accept
saveToLocalStorage_BadVersion(ls, cardList, mode, now) ==
  LET data == [version |-> "1", cards |-> cardList,
               lastModified |-> toISOString(now)] IN
  IF mode = "ok"
    THEN [ls |-> setItem(ls, STORAGE_KEY, JSONstringify(data)), thrown |-> NoError]
  ELSE IF mode = "quota"
    THEN [ls |-> ls, thrown |-> QuotaError(Len(cardList))]
  ELSE IF mode = "security"
    THEN [ls |-> ls, thrown |-> DisabledError]
  ELSE [ls |-> ls, thrown |-> UnknownError]

\* saveToLocalStorage without the QuotaExceededError branch
saveToLocalStorage_NoQuotaBranch(ls, cardList, mode, now) ==
  LET data == [version |-> CURRENT_VERSION, cards |-> cardList,
               lastModified |-> toISOString(now)] IN
  IF mode = "ok"
    THEN [ls |-> setItem(ls, STORAGE_KEY, JSONstringify(data)), thrown |-> NoError]
  ELSE IF mode = "security"
    THEN [ls |-> ls, thrown |-> DisabledError]
  ELSE [ls |-> ls, thrown |-> UnknownError]

\* saveToLocalStorage that keeps the stored cards it was not given
saveToLocalStorage_Merge(ls, cardList, mode, now) ==
  LET stored == loadFromLocalStorage(ls, "ok", now).cards
      kept == SelectSeq2(stored, {c \in Range(stored) :
                                    \A i \in 1..Len(cardList) : cardList[i].id # c.id})
      data == [version |-> CURRENT_VERSION, cards |-> cardList \o kept,
               lastModified |-> toISOString(now)] IN
  IF mode = "ok"
    THEN [ls |-> setItem(ls, STORAGE_KEY, JSONstringify(data)), thrown |-> NoError]
  ELSE IF mode = "quota"
    THEN [ls |-> ls, thrown |-> QuotaError(Len(cardList))]
  ELSE IF mode = "security"
    THEN [ls |-> ls, thrown |-> DisabledError]
  ELSE [ls |-> ls, thrown |-> UnknownError]

\* saveToLocalStorage(cards): [ls, thrown]
saveToLocalStorage(ls, cardList, mode, now) ==
  LET data == [version |-> CURRENT_VERSION, cards |-> cardList,
               lastModified |-> toISOString(now)] IN
  IF mode = "ok"
    THEN [ls |-> setItem(ls, STORAGE_KEY, JSONstringify(data)), thrown |-> NoError]
  ELSE IF mode = "quota"
    THEN [ls |-> ls, thrown |-> QuotaError(Len(cardList))]
  ELSE IF mode = "security"
    THEN [ls |-> ls, thrown |-> DisabledError]
  ELSE [ls |-> ls, thrown |-> UnknownError]

\* clearAllData that removes the main key before it writes the backup
clearAllData_RemoveFirst(ls, createBackup, mode, now) ==
  LET raw == getItem(ls, STORAGE_KEY) IN
  IF mode \in {"security", "other"} THEN [ls |-> ls, thrown |-> NoError]
  ELSE IF createBackup /\ raw.kind \notin {"missing", "empty"}
    THEN IF mode = "quota"
           THEN [ls |-> removeItem(ls, STORAGE_KEY), thrown |-> NoError]
           ELSE [ls |-> setItem(removeItem(ls, STORAGE_KEY), clearBackupKey(now), raw),
                 thrown |-> NoError]
  ELSE [ls |-> removeItem(ls, STORAGE_KEY), thrown |-> NoError]

\* clearAllData(createBackup): [ls, thrown]; whatever the try block throws
\* is caught and logged
clearAllData(ls, createBackup, mode, now) ==
  LET raw == getItem(ls, STORAGE_KEY) IN
  IF mode \in {"security", "other"} THEN [ls |-> ls, thrown |-> NoError]
  ELSE IF createBackup /\ raw.kind \notin {"missing", "empty"}
    THEN IF mode = "quota"
           THEN [ls |-> ls, thrown |-> NoError]
           ELSE [ls |-> removeItem(setItem(ls, clearBackupKey(now), raw), STORAGE_KEY),
                 thrown |-> NoError]
  ELSE [ls |-> removeItem(ls, STORAGE_KEY), thrown |-> NoError]

---------------------------------------------------------------------------
(* Numbers: the double-precision arithmetic of (mastered / total) * 100    *)
(* and Math.round.  A positive double is [bits, exp]: 53 bits, the most    *)
(* significant first, of value bits * 2^exp; zero has no bits.             *)

Precision == 53

Zero == [bits |-> <<>>, exp |-> 0]

\* n zero bits
Zeros(n) == [i \in 1..n |-> 0]

\* the bits of a sequence without its leading zeros
StripZeros(bits) ==
  LET ones == {i \in 1..Len(bits) : bits[i] = 1} IN
  IF ones = {} THEN <<>>
  ELSE SubSeq(bits, CHOOSE i \in ones : \A j \in ones : i <= j, Len(bits))

\* the value of a short sequence of bits
RECURSIVE ToInteger(_)
ToInteger(bits) ==
  IF bits = <<>> THEN 0
  ELSE 2 * ToInteger(SubSeq(bits, 1, Len(bits) - 1)) + bits[Len(bits)]

\* bits + 1
RECURSIVE Increment(_)
Increment(bits) ==
  IF bits = <<>> THEN <<1>>
  ELSE IF bits[Len(bits)] = 0 THEN [bits EXCEPT ![Len(bits)] = 1]
  ELSE Increment(SubSeq(bits, 1, Len(bits) - 1)) \o <<0>>

\* the sum of two sequences of bits
Sum(a, b) ==
  LET n == Max(Len(a), Len(b)) + 1
      bit(x, i) == IF i <= Len(x) THEN x[Len(x) - i + 1] ELSE 0
      carry[i \in 0..n] ==
        IF i = 0 THEN 0 ELSE (bit(a, i) + bit(b, i) + carry[i - 1]) \div 2
  IN StripZeros([i \in 1..n |->
                   (bit(a, n - i + 1) + bit(b, n - i + 1) + carry[n - i]) % 2])

\* the double nearest to bits * 2^exp (plus less than one unit of the last
\* bit when sticky), ties to the even significand; bits starts with a 1
\* and has at least Precision bits
RoundToDouble(bits, exp, sticky) ==
  LET kept == SubSeq(bits, 1, Precision)
      dropped == SubSeq(bits, Precision + 1, Len(bits))
      half == dropped # <<>> /\ dropped[1] = 1
      more == sticky \/ \E i \in 2..Len(dropped) : dropped[i] = 1
      up == half /\ (more \/ kept[Precision] = 1)
      rounded == IF up THEN Increment(kept) ELSE kept
      e == exp + Len(dropped)
  IN IF Len(rounded) > Precision
       THEN [bits |-> SubSeq(rounded, 1, Precision), exp |-> e + 1]
       ELSE [bits |-> rounded, exp |-> e]

\* the first n bits of r / t after the binary point, for 0 <= r < t
RECURSIVE QuotientBits(_, _, _)
QuotientBits(r, t, n) ==
  IF n = 0 THEN <<>>
  ELSE <<(2 * r) \div t>> \o QuotientBits((2 * r) % t, t, n - 1)

\* what is left of r after n bits of r / t
RECURSIVE QuotientRest(_, _, _)
QuotientRest(r, t, n) ==
  IF n = 0 THEN r ELSE QuotientRest((2 * r) % t, t, n - 1)

\* the number of zero bits r / t starts with after the binary point
RECURSIVE LeadingZeros(_, _)
LeadingZeros(r, t) == IF 2 * r >= t THEN 0 ELSE 1 + LeadingZeros(2 * r, t)

\* the double m / t for integers 0 <= m <= t, t > 0
Divide(m, t) ==
  IF m = 0 THEN Zero
  ELSE IF m = t THEN [bits |-> <<1>> \o Zeros(Precision - 1), exp |-> 1 - Precision]
  ELSE LET z == LeadingZeros(m, t)
           r == m * (2 ^ z)
       IN RoundToDouble(QuotientBits(r, t, Precision + 1),
                        0 - (z + Precision + 1),
                        QuotientRest(r, t, Precision + 1) # 0)

\* the double x * 100: 100 = 64 + 32 + 4
Times100(x) ==
  IF x = Zero THEN Zero
  ELSE RoundToDouble(Sum(Sum(x.bits \o Zeros(6), x.bits \o Zeros(5)),
                         x.bits \o Zeros(2)),
                     x.exp, FALSE)

\* Math.round of a double x >= 0: the nearest integer, a tie going up
MathRound(x) ==
  IF x = Zero THEN 0
  ELSE LET whole == Precision + x.exp
       IN IF whole < 0 THEN 0
          ELSE ToInteger(SubSeq(x.bits, 1, whole))
                 + (IF whole < Precision THEN x.bits[whole + 1] ELSE 0)

---------------------------------------------------------------------------
(* cardSelectors.ts                                                        *)

state == [cards |-> cards, filter |-> filter,
          currentCardIndex |-> currentCardIndex]

getVisibleCards(s) ==
  IF s.filter = "needsReview"
    THEN SelectSeq2(s.cards, {c \in Range(s.cards) : ~c.mastered})
    ELSE s.cards

\* visibleCards[state.currentCardIndex] || null, as a sequence of 0 or 1 card
getCurrentCard(s) ==
  LET visibleCards == getVisibleCards(s) IN
  IF s.currentCardIndex >= 0 /\ s.currentCardIndex < Len(visibleCards)
    THEN <<visibleCards[s.currentCardIndex + 1]>> ELSE <<>>

getCardStats(s) ==
  LET total == Len(s.cards)
      mastered == Cardinality({i \in 1..total :
                                 "mastered" \in DOMAIN s.cards[i] /\ s.cards[i].mastered})
      needsReview == total - mastered
      masteredPercentage ==
        IF total > 0 THEN MathRound(Times100(Divide(mastered, total))) ELSE 0
  IN [total |-> total, mastered |-> mastered, needsReview |-> needsReview,
      masteredPercentage |-> masteredPercentage]

---------------------------------------------------------------------------
(* parseBulkImportText: a text is the sequence of its characters           *)

MAX_VOCABULARY_LENGTH == 100
MAX_MEANING_LENGTH == 500
PART_OF_SPEECH_MAX_LENGTH == 50
EXAMPLE_SENTENCE_MAX_LENGTH == 500
MAX_EXAMPLE_SENTENCES == 5

\* the white space of the texts of the model
WhiteSpace == {" ", "\n"}

\* a trim that returns its argument
trim_Nothing(s) == s

\* String.prototype.trim
trim(s) ==
  LET keep == {i \in 1..Len(s) : s[i] \notin WhiteSpace} IN
  IF keep = {} THEN <<>>
  ELSE SubSeq(s, CHOOSE i \in keep : \A j \in keep : i <= j,
                 CHOOSE i \in keep : \A j \in keep : i >= j)

\* String.prototype.includes for one character
includes(s, ch) == \E i \in 1..Len(s) : s[i] = ch

\* String.prototype.split on one character: the pieces between its
\* occurrences, empty pieces included
split(s, sep) ==
  LET at == {i \in 1..Len(s) : s[i] = sep}
      n == Cardinality(at)
      pos(k) == IF k = 0 THEN 0
                ELSE IF k = n + 1 THEN Len(s) + 1
                ELSE CHOOSE i \in at : Cardinality({j \in at : j < i}) = k - 1
  IN [k \in 1..(n + 1) |-> SubSeq(s, pos(k - 1) + 1, pos(k) - 1)]

\* Array.prototype.join with a one-character separator
RECURSIVE join(_, _)
join(parts, sep) ==
  IF parts = <<>> THEN <<>>
  ELSE IF Len(parts) = 1 THEN parts[1]
  ELSE parts[1] \o <<sep>> \o join(Tail(parts), sep)

\* array.map(p => p.trim())
mapTrim(parts) == [k \in 1..Len(parts) |-> trim(parts[k])]

\* failed.push({ rawText: trimmedEntry, error }): the message is the tuple
\* of the fragments of its template literal
Failed(trimmedEntry, error) ==
  [ok |-> FALSE, failed |-> [rawText |-> trimmedEntry, error |-> error]]

\* the body of the loop for one non-empty trimmed entry: the card it
\* creates under the given id and time, or the failure it records.  An
\* optional value (partOfSpeech, examplesRaw, exampleSentences) is a
\* sequence of 0 or 1 value, empty for undefined.
ParseEntry(trimmedEntry, uuid, now) ==
  LET parts == mapTrim(split(trimmedEntry, ","))
      vocabulary == parts[1]
      meaning == parts[2]
      partOfSpeech == IF Len(parts) >= 3 THEN <<parts[3]>> ELSE <<>>
      examplesRaw ==
        IF Len(parts) >= 4
          THEN <<trim(join(SubSeq(parts, 4, Len(parts)), ","))>> ELSE <<>>
      hasPartOfSpeech == partOfSpeech # <<>> /\ Len(partOfSpeech[1]) > 0
      hasExamplesRaw == examplesRaw # <<>> /\ Len(examplesRaw[1]) > 0
      examples == SelectSeq(mapTrim(split(examplesRaw[1], "|")),
                            LAMBDA ex : Len(ex) > 0)
      tooLong == {k \in 1..Len(examples) :
                    Len(examples[k]) > EXAMPLE_SENTENCE_MAX_LENGTH}
      example == examples[CHOOSE k \in tooLong : \A j \in tooLong : k <= j]
      exampleSentences ==
        IF hasExamplesRaw /\ Len(examples) > 0 THEN <<examples>> ELSE <<>>
      card == Spread(Spread([id |-> uuid, term |-> vocabulary,
                             definition |-> meaning, mastered |-> FALSE,
                             createdAt |-> toISOString(now)],
                            IF hasPartOfSpeech
                              THEN [partOfSpeech |-> partOfSpeech[1]]
                              ELSE <<>>),
                     IF exampleSentences # <<>> /\ Len(exampleSentences[1]) > 0
                       THEN [exampleSentences |-> exampleSentences[1]]
                       ELSE <<>>)
  IN IF Len(parts) < 2
       THEN Failed(trimmedEntry, <<"Missing comma separator. Expected format: \"vocabulary, meaning[, partOfSpeech[, examples]]\"">>)
     ELSE IF Len(vocabulary) = 0
       THEN Failed(trimmedEntry, <<"Vocabulary cannot be empty">>)
     ELSE IF Len(vocabulary) > MAX_VOCABULARY_LENGTH
       THEN Failed(trimmedEntry, <<"Vocabulary exceeds ", MAX_VOCABULARY_LENGTH,
                                   " characters (", Len(vocabulary), " chars)">>)
     ELSE IF Len(meaning) = 0
       THEN Failed(trimmedEntry, <<"Meaning cannot be empty">>)
     ELSE IF Len(meaning) > MAX_MEANING_LENGTH
       THEN Failed(trimmedEntry, <<"Meaning exceeds ", MAX_MEANING_LENGTH,
                                   " characters (", Len(meaning), " chars)">>)
     ELSE IF hasPartOfSpeech /\ Len(partOfSpeech[1]) > PART_OF_SPEECH_MAX_LENGTH
       THEN Failed(trimmedEntry, <<"Part of speech exceeds ", PART_OF_SPEECH_MAX_LENGTH,
                                   " characters (", Len(partOfSpeech[1]), " chars)">>)
     ELSE IF hasExamplesRaw /\ Len(examples) > MAX_EXAMPLE_SENTENCES
       THEN Failed(trimmedEntry, <<"Too many examples (", Len(examples),
                                   "). Maximum is ", MAX_EXAMPLE_SENTENCES>>)
     ELSE IF hasExamplesRaw /\ tooLong # {}
       THEN Failed(trimmedEntry, <<"Example sentence exceeds ", EXAMPLE_SENTENCE_MAX_LENGTH,
                                   " characters (", Len(example), " chars)">>)
     ELSE [ok |-> TRUE, card |-> card]

\* const successful = [], failed = []
EmptyResult == [successful |-> <<>>, failed |-> <<>>]

\* a loop that stops at the first entry that fails
RECURSIVE processEntries_StopAtFailure(_, _, _)
processEntries_StopAtFailure(allEntries, acc, now) ==
  IF allEntries = <<>> THEN acc
  ELSE LET trimmedEntry == trim(Head(allEntries))
           n == now + Len(acc.successful)
           r == ParseEntry(trimmedEntry, randomUUID(n), n)
       IN IF Len(trimmedEntry) = 0
            THEN processEntries_StopAtFailure(Tail(allEntries), acc, now)
          ELSE IF r.ok
            THEN processEntries_StopAtFailure(
                   Tail(allEntries),
                   [acc EXCEPT !.successful = Append(@, r.card)], now)
          ELSE [acc EXCEPT !.failed = Append(@, r.failed)]

\* for (const entry of allEntries): empty entries are skipped, every other
\* entry adds a card to successful or a record to failed; each card takes
\* the next id of the generator
RECURSIVE processEntries(_, _, _)
processEntries(allEntries, acc, now) ==
  IF allEntries = <<>> THEN acc
  ELSE LET trimmedEntry == trim(Head(allEntries))
           n == now + Len(acc.successful)
           r == ParseEntry(trimmedEntry, randomUUID(n), n)
       IN processEntries(
            Tail(allEntries),
            IF Len(trimmedEntry) = 0 THEN acc
            ELSE IF r.ok THEN [acc EXCEPT !.successful = Append(@, r.card)]
            ELSE [acc EXCEPT !.failed = Append(@, r.failed)],
            now)

\* a parser that splits every line on semicolons as well
parseBulkImportText_SplitBoth(text, now) ==
  IF Len(trim(text)) = 0 THEN EmptyResult
  ELSE LET lines == split(text, "\n")
           RECURSIVE segments(_)
           segments(ls) == IF ls = <<>> THEN <<>>
                           ELSE split(Head(ls), ";") \o segments(Tail(ls))
       IN processEntries(segments(lines), EmptyResult, now)

parseBulkImportText(text, now) ==
  IF Len(text) = 0 \/ Len(trim(text)) = 0 THEN EmptyResult
  ELSE LET hasNewlines == includes(text, "\n")
           allEntries == IF hasNewlines THEN split(text, "\n")
                         ELSE split(text, ";")
       IN processEntries(allEntries, EmptyResult, now)

---------------------------------------------------------------------------
(* cardReducer, one operator per case                                      *)

initialState == [cards |-> <<>>, filter |-> "all", currentCardIndex |-> 0]

\* ADD_CARD that puts the new card first
ADD_CARD_Prepend(s, payload, uuid, now) ==
  LET newCard == Spread(payload, [id |-> uuid, createdAt |-> toISOString(now)])
  IN [s EXCEPT !.cards = <<newCard>> \o s.cards]

ADD_CARD(s, payload, uuid, now) ==
  LET newCard == Spread(payload, [id |-> uuid, createdAt |-> toISOString(now)])
  IN [s EXCEPT !.cards = Append(s.cards, newCard)]

\* UPDATE_CARD that also resets mastered
UPDATE_CARD_ResetMastered(s, id, updates) ==
  [s EXCEPT !.cards = [i \in 1..Len(s.cards) |->
     IF s.cards[i].id = id
       THEN Spread(Spread(s.cards[i], updates), [mastered |-> FALSE])
       ELSE s.cards[i]]]

UPDATE_CARD(s, id, updates) ==
  [s EXCEPT !.cards = [i \in 1..Len(s.cards) |->
     IF s.cards[i].id = id THEN Spread(s.cards[i], updates) ELSE s.cards[i]]]

\* DELETE_CARD that leaves the cursor where it was
DELETE_CARD_NoClamp(s, cardId) ==
  [s EXCEPT !.cards = SelectSeq2(s.cards, {c \in Range(s.cards) : c.id # cardId})]

DELETE_CARD(s, cardId) ==
  LET newCards == SelectSeq2(s.cards, {c \in Range(s.cards) : c.id # cardId})
      newIndex == IF s.currentCardIndex >= Len(newCards) /\ Len(newCards) > 0
                    THEN Len(newCards) - 1
                  ELSE IF Len(newCards) = 0 THEN 0
                  ELSE s.currentCardIndex
  IN [s EXCEPT !.cards = newCards, !.currentCardIndex = newIndex]

\* TOGGLE_MASTERED that marks the card mastered instead of negating
TOGGLE_MASTERED_SetTrue(s, cardId) ==
  [s EXCEPT !.cards = [i \in 1..Len(s.cards) |->
     IF s.cards[i].id = cardId
       THEN Spread(s.cards[i], [mastered |-> TRUE])
       ELSE s.cards[i]]]

TOGGLE_MASTERED(s, cardId) ==
  [s EXCEPT !.cards = [i \in 1..Len(s.cards) |->
     IF s.cards[i].id = cardId
       THEN Spread(s.cards[i], [mastered |-> ~s.cards[i].mastered])
       ELSE s.cards[i]]]

\* SET_FILTER that resets the cursor only when the filter changes
SET_FILTER_ResetOnChange(s, f) ==
  [s EXCEPT !.filter = f,
            !.currentCardIndex = IF f = s.filter THEN s.currentCardIndex ELSE 0]

SET_FILTER(s, f) == [s EXCEPT !.filter = f, !.currentCardIndex = 0]

NAVIGATE(s, newIndex) ==
  LET maxIndex == Len(s.cards) - 1
      clampedIndex == Max(0, Min(newIndex, maxIndex))
  IN [s EXCEPT !.currentCardIndex = clampedIndex]

\* a[i] = a[j] without the exchange
Swap_Overwrite(a, i, j) ==
  [k \in 1..Len(a) |-> IF k = i + 1 THEN a[j + 1] ELSE a[k]]

\* [a[i], a[j]] = [a[j], a[i]] on 0-based indexes
Swap(a, i, j) ==
  [k \in 1..Len(a) |-> IF k = i + 1 THEN a[j + 1]
                       ELSE IF k = j + 1 THEN a[i + 1] ELSE a[k]]

\* the Fisher-Yates loop from index i down to 1; js[i] is the value of
\* Math.floor(Math.random() * (i + 1)) in iteration i
RECURSIVE FisherYates(_, _, _)

\* a loop that ends at i > 1 and never exchanges the second element
FisherYates_StopEarly(a, i, js) ==
  IF i <= 1 THEN a ELSE FisherYates(Swap(a, i, js[i]), i - 1, js)

FisherYates(a, i, js) ==
  IF i <= 0 THEN a ELSE FisherYates(Swap(a, i, js[i]), i - 1, js)

\* every outcome of the random draws for an array of length n
RandomDraws(n) == {js \in [1..(n - 1) -> 0..(n - 1)] : \A i \in 1..(n - 1) : js[i] <= i}

SHUFFLE_CARDS(s, js) ==
  [s EXCEPT !.cards = FisherYates(s.cards, Len(s.cards) - 1, js),
            !.currentCardIndex = 0]

\* BULK_IMPORT that puts the records in front
BULK_IMPORT_Prepend(s, payload) == [s EXCEPT !.cards = payload \o s.cards]

BULK_IMPORT(s, payload) == [s EXCEPT !.cards = s.cards \o payload]

\* LOAD_CARDS that keeps the cards already held
LOAD_CARDS_Merge(s, payload) == [s EXCEPT !.cards = s.cards \o payload]

LOAD_CARDS(s, payload) == [s EXCEPT !.cards = payload]

---------------------------------------------------------------------------
(* Inputs                                                                  *)

\* Cards written by earlier sessions
CardA == [id |-> "s1", term |-> "a", definition |-> "x", mastered |-> FALSE,
          createdAt |-> "0"]
CardB == [id |-> "s2", term |-> "b", definition |-> "y", mastered |-> TRUE,
          createdAt |-> "0", partOfSpeech |-> "noun",
          exampleSentences |-> <<"e1", "e2">>]

CardC == [id |-> "s4", term |-> "c", definition |-> "z", mastered |-> FALSE,
          createdAt |-> "0", partOfSpeech |-> "verb"]

\* Entries a stored cards array may hold: three valid cards, an entry whose
\* mastered is not a boolean, an entry without id, and null
EntryBadMastered ==
  JObject([id |-> JString("s3"), term |-> JString("a"),
           definition |-> JString("x"), mastered |-> JString("yes"),
           createdAt |-> JString("0")])
EntryNoId ==
  JObject([term |-> JString("a"), definition |-> JString("x"),
           mastered |-> JBoolean(FALSE), createdAt |-> JString("0")])
StoredEntries ==
  {CardToJSON(CardA), CardToJSON(CardB), CardToJSON(CardC),
   EntryBadMastered, EntryNoId, JNull}

StoredLists ==
  UNION {{s \in [1..n -> StoredEntries] :
            \A i, j \in 1..n : s[i] = s[j] => i = j} : n \in 0..MaxStored}

StoredEnvelope(version, cardsValue) ==
  JSONText(JObject([version |-> JString(version), cards |-> cardsValue,
                    lastModified |-> JString("0")]))

\* What the main key may hold when the page is opened: every shape the
\* loader tells apart
AdapterPayloads ==
  {Missing, EmptyString, Malformed, JSONText(JNull),
   StoredEnvelope("0.9", JArray(<<CardToJSON(CardA)>>)),
   StoredEnvelope(CURRENT_VERSION, JString("oops"))}
  \cup {StoredEnvelope(CURRENT_VERSION, JArray(s)) : s \in StoredLists}

\* What the main key holds when a studied session opens: nothing, a
\* corrupted payload, JSON null, or one stored card
StoredPayloads ==
  {Missing, Malformed, JSONText(JNull),
   StoredEnvelope(CURRENT_VERSION, JArray(<<CardToJSON(CardB)>>))}

\* ADD_CARD payloads (Omit<Flashcard, 'id' | 'createdAt'>)
AddPayloads ==
  {[term |-> "a", definition |-> "x", mastered |-> m] : m \in BOOLEAN}

\* CreateFlashcardInput values, in which mastered is optional, chosen by
\* position
CreateInputs ==
  << [term |-> "a", definition |-> "x"],
     [term |-> "a", definition |-> "x", mastered |-> FALSE],
     [term |-> "a", definition |-> "x", mastered |-> TRUE],
     [term |-> "a", definition |-> "x", partOfSpeech |-> "noun"] >>

\* UPDATE_CARD payloads (UpdateFlashcardInput), chosen by position
UpdatePayloads == << [term |-> "b", partOfSpeech |-> "verb"] >>

\* ids a command may name: stored ones and generated (or not yet
\* generated) ones
IdUniverse == {"s1", "s2", "s4"} \cup {randomUUID(n) : n \in 1..MaxId}

\* NAVIGATE payloads
NavTargets == (-1)..(MaxCards + 1)

\* a card as parseBulkImportText creates it
ImportedCard(n) ==
  [id |-> randomUUID(n), term |-> "a", definition |-> "x",
   mastered |-> FALSE, createdAt |-> toISOString(n)]

\* String.prototype.toLowerCase on the terms of the model
toLowerCase(t) ==
  CASE t = "A" -> "a"
    [] t = "B" -> "b"
    [] OTHER -> t

\* terms of the entries of an import text, and the texts: one or two entries
ParsedTerms == {"a", "A", "b", "B"}
ParsedBatches == UNION {[1..n -> ParsedTerms] : n \in 1..MaxCards}

\* the card parseBulkImportText creates for an entry with the given term
ParsedCard(n, term) == [ImportedCard(n) EXCEPT !.term = term]

\* LOAD_CARDS payloads
LoadPayloads == {<<>>, <<CardB>>}

\* texts of the import form: every text of at most MaxTextLen characters
\* over the separators, a blank and a letter
Alphabet == {"a", ",", ";", "|", " ", "\n"}
ShortTexts == UNION {[1..n -> Alphabet] : n \in 0..MaxTextLen}

\* entries with 1 to 4 and more fields, padded, with empty fields, with
\* example sentences and with a semicolon
EntryPool ==
  << <<"a", ",", "a">>,
     <<" ", "a", " ", ",", " ", "a", " ">>,
     <<"a">>,
     <<",", "a">>,
     <<"a", ",">>,
     <<"a", ",", "a", ",", "a">>,
     <<"a", ",", "a", ",", ",", "a">>,
     <<"a", ",", "a", ",", "a", ",", "a", "|", "a">>,
     <<"a", ",", "a", ",", "a", ",", "a", ",", " ", "a", "|", " ", "|", "a">>,
     <<"a", ",", "a", ",", " ">>,
     <<"a", ",", "a", ";", "a">>,
     <<"a", ",", "a", ",", "a", ",", " ", "|", " ">> >>

\* texts of 1 to MaxEntries entries of the pool, one per line or separated
\* by semicolons
Separators == {"\n", ";"}
BatchTexts ==
  {join([k \in 1..Len(b) |-> EntryPool[b[k]]], sep) :
     b \in UNION {[1..n -> 1..Len(EntryPool)] : n \in 1..MaxEntries},
     sep \in Separators}

\* n times the character ch
Repeat(ch, n) == [i \in 1..n |-> ch]

\* entries at and one beyond each length limit
LimitTexts ==
  { Repeat("a", MAX_VOCABULARY_LENGTH) \o <<",", "a">>,
    Repeat("a", MAX_VOCABULARY_LENGTH + 1) \o <<",", "a">>,
    <<"a", ",">> \o Repeat("a", MAX_MEANING_LENGTH),
    <<"a", ",">> \o Repeat("a", MAX_MEANING_LENGTH + 1),
    <<"a", ",", "a", ",">> \o Repeat("a", PART_OF_SPEECH_MAX_LENGTH),
    <<"a", ",", "a", ",">> \o Repeat("a", PART_OF_SPEECH_MAX_LENGTH + 1),
    <<"a", ",", "a", ",", "a", ",">> \o Repeat("a", EXAMPLE_SENTENCE_MAX_LENGTH),
    <<"a", ",", "a", ",", "a", ",">> \o Repeat("a", EXAMPLE_SENTENCE_MAX_LENGTH + 1),
    <<"a", ",", "a", ",", "a", ",">>
      \o join(Repeat(<<"a">>, MAX_EXAMPLE_SENTENCES), "|"),
    <<"a", ",", "a", ",", "a", ",">>
      \o join(Repeat(<<"a">>, MAX_EXAMPLE_SENTENCES + 1), "|") }

\* "apple, fruit; book, reading material; car, vehicle"
TextThreeCards ==
  <<"a", "p", "p", "l", "e", ",", " ", "f", "r", "u", "i", "t", ";",
    " ", "b", "o", "o", "k", ",", " ", "r", "e", "a", "d", "i", "n",
    "g", " ", "m", "a", "t", "e", "r", "i", "a", "l", ";", " ", "c",
    "a", "r", ",", " ", "v", "e", "h", "i", "c", "l", "e">>

\* "eloquent, fluent, adjective, Cherry blossoms are ephemeral | Morning
\* dew is ephemeral"
TextWithExamples ==
  <<"e", "l", "o", "q", "u", "e", "n", "t", ",", " ", "f", "l", "u",
    "e", "n", "t", ",", " ", "a", "d", "j", "e", "c", "t", "i", "v",
    "e", ",", " ", "C", "h", "e", "r", "r", "y", " ", "b", "l", "o",
    "s", "s", "o", "m", "s", " ", "a", "r", "e", " ", "e", "p", "h",
    "e", "m", "e", "r", "a", "l", " ", "|", " ", "M", "o", "r", "n",
    "i", "n", "g", " ", "d", "e", "w", " ", "i", "s", " ", "e", "p",
    "h", "e", "m", "e", "r", "a", "l">>

\* "apple, a red, round fruit"
TextCommaInDefinition ==
  <<"a", "p", "p", "l", "e", ",", " ", "a", " ", "r", "e", "d", ",",
    " ", "r", "o", "u", "n", "d", " ", "f", "r", "u", "i", "t">>

RawTexts ==
  ShortTexts \cup BatchTexts \cup LimitTexts
    \cup {TextThreeCards, TextWithExamples, TextCommaInDefinition}

---------------------------------------------------------------------------
(* StudyView: the handlers of the Next and Previous buttons                *)

\* a Next that stops at the last visible card
handleNext_NoWrap(s) ==
  LET shown == getVisibleCards(s) IN
  IF Len(shown) = 0 THEN s
  ELSE NAVIGATE(s, Min(s.currentCardIndex + 1, Len(shown) - 1))

\* handleNext: nothing without a visible card, else NAVIGATE to
\* (currentCardIndex + 1) % visibleCards.length
handleNext(s) ==
  LET shown == getVisibleCards(s) IN
  IF Len(shown) = 0 THEN s
  ELSE NAVIGATE(s, (s.currentCardIndex + 1) % Len(shown))

\* handlePrevious: nothing without a visible card, else NAVIGATE to the
\* last visible index from 0 and to currentCardIndex - 1 otherwise
handlePrevious(s) ==
  LET shown == getVisibleCards(s) IN
  IF Len(shown) = 0 THEN s
  ELSE NAVIGATE(s, IF s.currentCardIndex = 0 THEN Len(shown) - 1
                   ELSE s.currentCardIndex - 1)

\* the state after Next was pressed k times
RECURSIVE Press(_, _)
Press(s, k) == IF k = 0 THEN s ELSE Press(handleNext(s), k - 1)

---------------------------------------------------------------------------
(* useSpeechSynthesis: the hook's state and the browser's speech engine.   *)
(* An utterance is the number of the speak call that made it; current is   *)
(* the utterance the engine holds, started tells that its start event was  *)
(* fired, paused is the engine's global pause, pending holds the events    *)
(* the browser has queued and not yet dispatched.                          *)

\* the event a cancelled utterance ends with
CancelEvents == {"end", "error"}

SpeechEvent(u, kind, code) == [u |-> u, kind |-> kind, code |-> code]

\* the useState and useRef initial values, and an idle engine
SpeechIdle(supported) ==
  [isSupported |-> supported, isSpeaking |-> FALSE, isPaused |-> FALSE,
   error |-> "null", utteranceRef |-> 0,
   current |-> 0, started |-> FALSE, paused |-> FALSE,
   interrupting |-> FALSE, pending |-> {}]

\* errorMessages[event.error] || `Speech error: ${event.error}`
errorMessage(code) ==
  CASE code = "cancelled" -> "Speech was cancelled"
    [] code = "interrupted" -> "Speech was interrupted"
    [] code = "audio-unavailable" -> "Audio output device unavailable"
    [] code = "network" -> "Network error occurred"
    [] code = "synthesis-unavailable" -> "Speech synthesis service unavailable"
    [] code = "canceled" -> "Speech error: canceled"
    [] OTHER -> "Speech error"

onstart(h) == [h EXCEPT !.isSpeaking = TRUE, !.isPaused = FALSE, !.error = "null"]

onend(h) == [h EXCEPT !.isSpeaking = FALSE, !.isPaused = FALSE]

onpause(h) == [h EXCEPT !.isPaused = TRUE]

onresume(h) == [h EXCEPT !.isPaused = FALSE]

onerror(h, code) ==
  [h EXCEPT !.error = errorMessage(code), !.isSpeaking = FALSE, !.isPaused = FALSE]

\* window.speechSynthesis.cancel(): the utterance the engine holds is dropped
\* and the browser queues its last event, an end or an error event, whose
\* code is "interrupted" once speaking began and "canceled" before; the
\* global pause is left as it is
cancel(h, kind) ==
  IF h.current = 0 THEN h
  ELSE [h EXCEPT
          !.pending = {e \in @ : ~(e.u = h.current /\ e.kind = "start")}
                        \cup {SpeechEvent(h.current, kind,
                                IF kind # "error" THEN ""
                                ELSE IF h.started THEN "interrupted" ELSE "canceled")},
          !.current = 0,
          !.started = FALSE]

\* speak(text, options)
speak(h, kind) ==
  IF ~h.isSupported
  THEN [h EXCEPT !.error = "Speech synthesis not supported in this browser"]
  ELSE LET c == cancel(h, kind)
           utterance == h.utteranceRef + 1
       IN [c EXCEPT !.utteranceRef = utterance,
                    !.current = utterance,
                    !.interrupting = (h.current # 0 /\ h.started),
                    !.pending = @ \cup {SpeechEvent(utterance, "start", "")}]

\* pause()
pause(h) ==
  IF h.isSupported /\ h.isSpeaking /\ ~h.isPaused
  THEN IF h.paused THEN h
       ELSE [h EXCEPT !.paused = TRUE,
                      !.pending = IF h.current # 0 /\ h.started
                                  THEN @ \cup {SpeechEvent(h.current, "pause", "")}
                                  ELSE @]
  ELSE h

\* resume()
resume(h) ==
  IF h.isSupported /\ h.isSpeaking /\ h.isPaused
  THEN IF ~h.paused THEN h
       ELSE [h EXCEPT !.paused = FALSE,
                      !.pending = IF h.current # 0 /\ h.started
                                  THEN @ \cup {SpeechEvent(h.current, "resume", "")}
                                  ELSE @]
  ELSE h

\* stop()
stop(h, kind) ==
  IF h.isSupported
  THEN [cancel(h, kind) EXCEPT !.isSpeaking = FALSE, !.isPaused = FALSE]
  ELSE h

\* the browser dispatches a queued event to the handler speak attached to the
\* event's utterance; every utterance carries the same handlers
dispatch(h, e) ==
  LET fired == [h EXCEPT !.pending = @ \ {e},
                         !.started = IF e.kind = "start" /\ e.u = h.current
                                     THEN TRUE ELSE @]
  IN CASE e.kind = "start" -> onstart(fired)
       [] e.kind = "end" -> onend(fired)
       [] e.kind = "pause" -> onpause(fired)
       [] e.kind = "resume" -> onresume(fired)
       [] e.kind = "error" -> onerror(fired, e.code)

---------------------------------------------------------------------------
(* The session: CardProvider                                               *)

\* history of the last step: its type, whether the id it named matched a
\* card (hit) and that id, its numeric payload (n), the storage mode its
\* adapter call met (mode), across a reload the filter and cards of the
\* session that ended (f, prev), whether the step began with the latest
\* adapter call failed (failed), and the tab that took the step (tab)
Last(type, hit, id, n, mode, f, prev) ==
  [type |-> type, hit |-> hit, id |-> id, n |-> n, mode |-> mode,
   f |-> f, prev |-> prev,
   failed |-> faults > 0, tab |-> 1]

\* a second tab of the same origin: its own CardProvider state, the same
\* localStorage; closed until it is opened
Tab2State(p, s) ==
  [pc |-> p, cards |-> s.cards, filter |-> s.filter,
   currentCardIndex |-> s.currentCardIndex]
Tab2Closed == Tab2State("boot", initialState)

Known(id) == \E i \in 1..Len(cards) : cards[i].id = id

Init ==
  /\ pc = "boot"
  /\ cards = initialState.cards
  /\ filter = initialState.filter
  /\ currentCardIndex = initialState.currentCardIndex
  /\ nextId = 1
  /\ \E p \in StoredPayloads :
       localStorage = [k \in StorageKeys |-> IF k = STORAGE_KEY THEN p ELSE Missing]
  /\ faults = 0
  /\ thrown = NoError
  /\ last = [type |-> "INIT", hit |-> FALSE, id |-> "", n |-> -1,
             mode |-> "none", f |-> "all", prev |-> <<>>, failed |-> FALSE,
             tab |-> 1]
  /\ tab2 = Tab2Closed
  /\ rawText = <<>>
  /\ parsed = EmptyResult
  /\ speech = SpeechIdle(TRUE)

\* a storage mode for one adapter call; at most MaxFaults adapter calls in a
\* row meet a failing storage
Faulty(mode) == mode # "ok"
ModeAllowed(mode) == Faulty(mode) => faults < MaxFaults
FaultsAfter(mode) == IF Faulty(mode) THEN faults + 1 ELSE 0

\* the lazy initialiser of useReducer: { ...initial, cards: loadFromLocalStorage() }
Hydrate ==
  /\ pc = "boot"
  /\ \E mode \in StorageModes :
       /\ ModeAllowed(mode)
       /\ LET r == loadFromLocalStorage(localStorage, mode, nextId) IN
            /\ cards' = r.cards
            /\ localStorage' = r.ls
            /\ thrown' = r.thrown
            /\ pc' = IF r.thrown = NoError THEN "loaded" ELSE "crashed"
       /\ faults' = FaultsAfter(mode)
       /\ last' = Last("HYDRATE", FALSE, "", last.n, mode, last.f, last.prev)
  /\ UNCHANGED <<filter, currentCardIndex, nextId, tab2, rawText, parsed, speech>>

\* useEffect(() => { try { saveToLocalStorage(state.cards) } catch ... },
\* [state.cards]) for the cards s holds, under a storage mode
SaveEffect(s, now, mode) ==
  /\ ModeAllowed(mode)
  /\ LET r == saveToLocalStorage(localStorage, s.cards, mode, now) IN
       /\ localStorage' = r.ls
       /\ thrown' = r.thrown
  /\ faults' = FaultsAfter(mode)

\* an effect that skips its first run
MountEffect_SkipFirstRun ==
  /\ pc = "loaded"
  /\ pc' = "running"
  /\ UNCHANGED <<cards, filter, currentCardIndex, nextId, tab2, rawText, parsed,
                 speech, localStorage, faults>>
  /\ thrown' = NoError
  /\ last' = Last("MOUNT", FALSE, "", 0, "ok", "all", <<localStorage[STORAGE_KEY]>>)

\* the first run of the effect, after the first render; the history keeps
\* what the main key held before the write
MountEffect ==
  /\ pc = "loaded"
  /\ pc' = "running"
  /\ UNCHANGED <<cards, filter, currentCardIndex, nextId, tab2, rawText, parsed, speech>>
  /\ \E mode \in StorageModes :
       /\ SaveEffect(state, nextId, mode)
       /\ last' = Last("MOUNT", FALSE, "", 0, mode, "all", <<localStorage[STORAGE_KEY]>>)

\* dispatch that keeps the old state when the save fails
Commit_RollbackOnFailure(s, saves, now, type, hit, id, n) ==
  /\ pc' = pc
  /\ tab2' = tab2
  /\ UNCHANGED <<rawText, parsed, speech>>
  /\ IF saves
       THEN \E mode \in StorageModes :
              /\ SaveEffect(s, now, mode)
              /\ last' = Last(type, hit, id, n, mode, "all", <<>>)
              /\ cards' = IF Faulty(mode) THEN cards ELSE s.cards
              /\ filter' = s.filter
              /\ currentCardIndex' = IF Faulty(mode) THEN currentCardIndex
                                     ELSE s.currentCardIndex
       ELSE /\ thrown' = NoError
            /\ cards' = s.cards
            /\ filter' = s.filter
            /\ currentCardIndex' = s.currentCardIndex
            /\ UNCHANGED <<localStorage, faults>>
            /\ last' = Last(type, hit, id, n, "none", "all", <<>>)

\* dispatch(action) giving state s: the reducer result is stored and, when
\* the cards array is a new array, the effect saves it
Commit(s, saves, now, type, hit, id, n) ==
  /\ cards' = s.cards
  /\ filter' = s.filter
  /\ currentCardIndex' = s.currentCardIndex
  /\ pc' = pc
  /\ tab2' = tab2
  /\ UNCHANGED <<rawText, parsed, speech>>
  /\ IF saves
       THEN \E mode \in StorageModes :
              /\ SaveEffect(s, now, mode)
              /\ last' = Last(type, hit, id, n, mode, "all", <<>>)
       ELSE /\ thrown' = NoError
            /\ UNCHANGED <<localStorage, faults>>
            /\ last' = Last(type, hit, id, n, "none", "all", <<>>)

\* the id a command named, kept when it matched a card
Hit(id) == IF Known(id) THEN id ELSE ""

Add ==
  /\ pc = "running"
  /\ Len(cards) < MaxCards
  /\ nextId <= MaxId
  /\ nextId' = nextId + 1
  /\ \E payload \in AddPayloads :
       Commit(ADD_CARD(state, payload, randomUUID(nextId), nextId), TRUE,
              nextId + 1, "ADD_CARD", FALSE, "", 0)

Update ==
  /\ pc = "running"
  /\ UNCHANGED nextId
  /\ \E id \in IdUniverse, u \in 1..Len(UpdatePayloads) :
       Commit(UPDATE_CARD(state, id, UpdatePayloads[u]), TRUE, nextId,
              "UPDATE_CARD", Known(id), Hit(id), u)

Delete ==
  /\ pc = "running"
  /\ UNCHANGED nextId
  /\ \E id \in IdUniverse :
       Commit(DELETE_CARD(state, id), TRUE, nextId,
              "DELETE_CARD", Known(id), Hit(id), currentCardIndex)

ToggleMastered ==
  /\ pc = "running"
  /\ UNCHANGED nextId
  /\ \E id \in IdUniverse :
       Commit(TOGGLE_MASTERED(state, id), TRUE, nextId,
              "TOGGLE_MASTERED", Known(id), Hit(id), 0)

\* SET_FILTER returns the same cards array, so the effect does not run; the
\* history keeps the filter asked for and the cursor before the step
SetFilter ==
  /\ pc = "running"
  /\ UNCHANGED <<nextId, pc, tab2, localStorage, faults, rawText, parsed, speech>>
  /\ thrown' = NoError
  /\ \E f \in Filters :
       LET s == SET_FILTER(state, f) IN
       /\ cards' = s.cards
       /\ filter' = s.filter
       /\ currentCardIndex' = s.currentCardIndex
       /\ last' = Last("SET_FILTER", FALSE, "", currentCardIndex, "none", f, <<>>)

Navigate ==
  /\ pc = "running"
  /\ UNCHANGED nextId
  /\ \E t \in NavTargets :
       Commit(NAVIGATE(state, t), FALSE, nextId, "NAVIGATE", FALSE, "", t)

Shuffle ==
  /\ pc = "running"
  /\ UNCHANGED nextId
  /\ \E js \in RandomDraws(Len(cards)) :
       Commit(SHUFFLE_CARDS(state, js), TRUE, nextId,
              "SHUFFLE_CARDS", FALSE, "", 0)

BulkImport ==
  /\ pc = "running"
  /\ \E k \in 1..MaxCards :
       /\ Len(cards) + k <= MaxCards
       /\ nextId + k - 1 <= MaxId
       /\ nextId' = nextId + k
       /\ Commit(BULK_IMPORT(state, [i \in 1..k |-> ImportedCard(nextId + i - 1)]),
                 TRUE, nextId + k, "BULK_IMPORT", FALSE, "", k)

Load ==
  /\ pc = "running"
  /\ UNCHANGED nextId
  /\ \E payload \in LoadPayloads :
       /\ Len(payload) <= MaxCards
       /\ Commit(LOAD_CARDS(state, payload), TRUE, nextId,
                 "LOAD_CARDS", FALSE, "", Len(payload))

\* the page is reloaded: the in-memory state is gone, storage stays
Reload ==
  /\ pc = "running"
  /\ pc' = "boot"
  /\ cards' = initialState.cards
  /\ filter' = initialState.filter
  /\ currentCardIndex' = initialState.currentCardIndex
  /\ thrown' = NoError
  /\ last' = Last("RELOAD", FALSE, "", faults, "none", filter, cards)
  /\ UNCHANGED <<nextId, localStorage, faults, tab2, rawText, parsed, speech>>

Next ==
  \/ Hydrate
  \/ MountEffect
  \/ Add
  \/ Update
  \/ Delete
  \/ ToggleMastered
  \/ SetFilter
  \/ Navigate
  \/ Shuffle
  \/ BulkImport
  \/ Load
  \/ Reload

Spec == Init /\ [][Next]_vars

---------------------------------------------------------------------------
(* The persistence adapter on its own: the page is opened on any stored    *)
(* payload, hydrated, saved by the mount effect, and reloaded.             *)

InitStorage ==
  /\ pc = "boot"
  /\ cards = initialState.cards
  /\ filter = initialState.filter
  /\ currentCardIndex = initialState.currentCardIndex
  /\ nextId = 1
  /\ \E p \in AdapterPayloads :
       localStorage = [k \in StorageKeys |-> IF k = STORAGE_KEY THEN p ELSE Missing]
  /\ faults = 0
  /\ thrown = NoError
  /\ last = [type |-> "INIT", hit |-> FALSE, id |-> "", n |-> -1,
             mode |-> "none", f |-> "all", prev |-> <<>>, failed |-> FALSE,
             tab |-> 1]
  /\ tab2 = Tab2Closed
  /\ rawText = <<>>
  /\ parsed = EmptyResult
  /\ speech = SpeechIdle(TRUE)

NextStorage ==
  \/ Hydrate
  \/ MountEffect
  \/ Reload

SpecStorage == InitStorage /\ [][NextStorage]_vars

---------------------------------------------------------------------------
(* A session opened on a stored deck of three cards: the commands of the   *)
(* study view, deletion in the library, and additions once cards were      *)
(* deleted.                                                                *)

StoredDeck ==
  StoredEnvelope(CURRENT_VERSION,
                 JArray(<<CardToJSON(CardA), CardToJSON(CardB), CardToJSON(CardC)>>))

InitDeck ==
  /\ pc = "boot"
  /\ cards = initialState.cards
  /\ filter = initialState.filter
  /\ currentCardIndex = initialState.currentCardIndex
  /\ nextId = 1
  /\ localStorage = [k \in StorageKeys |-> IF k = STORAGE_KEY THEN StoredDeck ELSE Missing]
  /\ faults = 0
  /\ thrown = NoError
  /\ last = [type |-> "INIT", hit |-> FALSE, id |-> "", n |-> -1,
             mode |-> "none", f |-> "all", prev |-> <<>>, failed |-> FALSE,
             tab |-> 1]
  /\ tab2 = Tab2Closed
  /\ rawText = <<>>
  /\ parsed = EmptyResult
  /\ speech = SpeechIdle(TRUE)

NextDeck ==
  \/ Hydrate
  \/ MountEffect
  \/ Add
  \/ BulkImport
  \/ Delete
  \/ ToggleMastered
  \/ SetFilter
  \/ Navigate
  \/ Shuffle

SpecDeck == InitDeck /\ [][NextDeck]_vars

---------------------------------------------------------------------------
(* ADD_CARD as it runs on any CreateFlashcardInput, whose mastered is      *)
(* optional: cards are added, saved and loaded again.                      *)

AddCreateInput ==
  /\ pc = "running"
  /\ Len(cards) < MaxCards
  /\ nextId <= MaxId
  /\ nextId' = nextId + 1
  /\ \E u \in 1..Len(CreateInputs) :
       Commit(ADD_CARD(state, CreateInputs[u], randomUUID(nextId), nextId), TRUE,
              nextId + 1, "ADD_CARD", FALSE, "", u)

NextAdd ==
  \/ Hydrate
  \/ MountEffect
  \/ AddCreateInput
  \/ Reload

SpecAdd == Init /\ [][NextAdd]_vars

---------------------------------------------------------------------------
(* The import flow of the BulkImport component: the parsed cards are       *)
(* filtered against the collection and dispatched.                         *)

\* handleImport for a text whose entries parse to cards with the given terms
HandleImport ==
  /\ pc = "running"
  /\ \E terms \in ParsedBatches :
       LET k == Len(terms)
           successful == [i \in 1..k |-> ParsedCard(nextId + i - 1, terms[i])]
           existingTermsLowercase == {toLowerCase(cards[i].term) : i \in 1..Len(cards)}
           cardsToImport ==
             SelectSeq2(successful,
                        {c \in Range(successful) :
                           toLowerCase(c.term) \notin existingTermsLowercase})
       IN /\ nextId + k - 1 <= MaxId
          /\ Len(cards) + Len(cardsToImport) <= MaxCards
          /\ nextId' = nextId + k
          /\ IF Len(cardsToImport) > 0
               THEN Commit(BULK_IMPORT(state, cardsToImport), TRUE, nextId + k,
                           "BULK_IMPORT", FALSE, "", Len(cardsToImport))
               ELSE /\ UNCHANGED <<pc, cards, filter, currentCardIndex,
                                   localStorage, faults, tab2, rawText, parsed, speech>>
                    /\ thrown' = NoError
                    /\ last' = Last("IMPORT_SKIPPED", FALSE, "", k, "none", "all", <<>>)

NextImport ==
  \/ Hydrate
  \/ MountEffect
  \/ HandleImport
  \/ Delete
  \/ Reload

SpecImport == Init /\ [][NextImport]_vars

---------------------------------------------------------------------------
(* The parser on its own: a text is entered in the import form and parsed. *)

InitParse ==
  /\ pc = "entered"
  /\ rawText \in RawTexts
  /\ parsed = EmptyResult
  /\ speech = SpeechIdle(TRUE)
  /\ cards = initialState.cards
  /\ filter = initialState.filter
  /\ currentCardIndex = initialState.currentCardIndex
  /\ nextId = 1
  /\ localStorage = [k \in StorageKeys |-> Missing]
  /\ faults = 0
  /\ thrown = NoError
  /\ last = [type |-> "INIT", hit |-> FALSE, id |-> "", n |-> -1,
             mode |-> "none", f |-> "all", prev |-> <<>>, failed |-> FALSE,
             tab |-> 1]
  /\ tab2 = Tab2Closed

\* const result = parseBulkImportText(inputText)
Parse ==
  /\ pc = "entered"
  /\ pc' = "parsed"
  /\ parsed' = parseBulkImportText(rawText, nextId)
  /\ nextId' = nextId + Len(parsed'.successful)
  /\ UNCHANGED <<rawText, cards, filter, currentCardIndex, localStorage,
                 faults, thrown, last, tab2, speech>>

NextParse ==
  \/ Parse

SpecParse == InitParse /\ [][NextParse]_vars

---------------------------------------------------------------------------
(* The statistics of a collection: a running session that holds a deck of  *)
(* up to MaxDeck imported cards, some of them marked mastered, and the     *)
(* filter of the study view.                                               *)

\* the first cards need review, the last `mastered` cards are mastered
Deck(total, mastered) ==
  [i \in 1..total |->
     [ImportedCard(i) EXCEPT !.mastered = (i > total - mastered)]]

InitStats ==
  /\ pc = "running"
  /\ \E total \in 0..MaxDeck :
       \E mastered \in 0..total :
         /\ cards = Deck(total, mastered)
         /\ nextId = total + 1
         /\ localStorage =
              saveToLocalStorage([k \in StorageKeys |-> Missing],
                                 Deck(total, mastered), "ok", total + 1).ls
  /\ filter = initialState.filter
  /\ currentCardIndex = initialState.currentCardIndex
  /\ faults = 0
  /\ thrown = NoError
  /\ last = [type |-> "INIT", hit |-> FALSE, id |-> "", n |-> -1,
             mode |-> "none", f |-> "all", prev |-> <<>>, failed |-> FALSE,
             tab |-> 1]
  /\ tab2 = Tab2Closed
  /\ rawText = <<>>
  /\ parsed = EmptyResult
  /\ speech = SpeechIdle(TRUE)

NextStats ==
  \/ SetFilter

SpecStats == InitStats /\ [][NextStats]_vars

---------------------------------------------------------------------------
(* The study view on a stored deck of three cards: the Next and Previous   *)
(* buttons, the filter, the mastered toggle, and deletion in the library.  *)

\* the Next button; the history keeps the cursor before the step
HandleNext ==
  /\ pc = "running"
  /\ UNCHANGED nextId
  /\ Commit(handleNext(state), FALSE, nextId, "HANDLE_NEXT", FALSE, "",
            currentCardIndex)

\* the Previous button
HandlePrevious ==
  /\ pc = "running"
  /\ UNCHANGED nextId
  /\ Commit(handlePrevious(state), FALSE, nextId, "HANDLE_PREVIOUS", FALSE, "",
            currentCardIndex)

NextStudy ==
  \/ Hydrate
  \/ MountEffect
  \/ HandleNext
  \/ HandlePrevious
  \/ SetFilter
  \/ ToggleMastered
  \/ Delete

SpecStudy == InitDeck /\ [][NextStudy]_vars

---------------------------------------------------------------------------
(* Two tabs of the same origin: each has its own CardProvider, both use    *)
(* the same localStorage, and no tab listens to storage events.            *)

state2 == [cards |-> tab2.cards, filter |-> tab2.filter,
           currentCardIndex |-> tab2.currentCardIndex]

Known2(id) == \E i \in 1..Len(tab2.cards) : tab2.cards[i].id = id

\* the lazy initialiser of the second tab
Hydrate2 ==
  /\ tab2.pc = "boot"
  /\ tab2.cards = <<>>
  /\ \E mode \in StorageModes :
       /\ ModeAllowed(mode)
       /\ LET r == loadFromLocalStorage(localStorage, mode, nextId) IN
            /\ tab2' = [tab2 EXCEPT !.cards = r.cards, !.pc = "loaded"]
            /\ localStorage' = r.ls
            /\ thrown' = r.thrown
       /\ faults' = FaultsAfter(mode)
       /\ last' = [Last("HYDRATE", FALSE, "", -1, mode, "all", <<>>) EXCEPT !.tab = 2]
  /\ UNCHANGED <<pc, cards, filter, currentCardIndex, nextId, rawText, parsed, speech>>

\* the first run of the second tab's effect
MountEffect2 ==
  /\ tab2.pc = "loaded"
  /\ tab2' = [tab2 EXCEPT !.pc = "running"]
  /\ UNCHANGED <<pc, cards, filter, currentCardIndex, nextId, rawText, parsed, speech>>
  /\ \E mode \in StorageModes :
       /\ SaveEffect(state2, nextId, mode)
       /\ last' = [Last("MOUNT", FALSE, "", 0, mode, "all", <<>>) EXCEPT !.tab = 2]

\* dispatch in the second tab: its reducer result, then its effect
Commit2(s, now, type, hit, id, n) ==
  /\ tab2' = Tab2State(tab2.pc, s)
  /\ UNCHANGED <<pc, cards, filter, currentCardIndex, rawText, parsed, speech>>
  /\ \E mode \in StorageModes :
       /\ SaveEffect(s, now, mode)
       /\ last' = [Last(type, hit, id, n, mode, "all", <<>>) EXCEPT !.tab = 2]

Add2 ==
  /\ tab2.pc = "running"
  /\ Len(tab2.cards) < MaxCards
  /\ nextId <= MaxId
  /\ nextId' = nextId + 1
  /\ \E payload \in AddPayloads :
       Commit2(ADD_CARD(state2, payload, randomUUID(nextId), nextId),
               nextId + 1, "ADD_CARD", FALSE, "", 0)

Delete2 ==
  /\ tab2.pc = "running"
  /\ UNCHANGED nextId
  /\ \E id \in IdUniverse :
       Commit2(DELETE_CARD(state2, id), nextId, "DELETE_CARD", Known2(id),
               IF Known2(id) THEN id ELSE "", tab2.currentCardIndex)

NextTabs ==
  \/ Hydrate
  \/ MountEffect
  \/ Add
  \/ Delete
  \/ Hydrate2
  \/ MountEffect2
  \/ Add2
  \/ Delete2

SpecTabs == Init /\ [][NextTabs]_vars

---------------------------------------------------------------------------
(* The speech hook on its own: the read-aloud buttons of a card are        *)
(* pressed, the engine speaks and finishes, and the browser dispatches the *)
(* events of each utterance in an order of its own.                        *)

InitSpeech ==
  /\ pc = "speech"
  /\ speech \in {SpeechIdle(supported) : supported \in BOOLEAN}
  /\ rawText = <<>>
  /\ parsed = EmptyResult
  /\ cards = initialState.cards
  /\ filter = initialState.filter
  /\ currentCardIndex = initialState.currentCardIndex
  /\ nextId = 1
  /\ localStorage = [k \in StorageKeys |-> Missing]
  /\ faults = 0
  /\ thrown = NoError
  /\ last = [type |-> "INIT", hit |-> FALSE, id |-> "", n |-> -1,
             mode |-> "none", f |-> "all", prev |-> <<>>, failed |-> FALSE,
             tab |-> 1]
  /\ tab2 = Tab2Closed

Hook(after) ==
  /\ pc = "speech"
  /\ speech' = after
  /\ UNCHANGED <<pc, cards, filter, currentCardIndex, nextId, localStorage,
                 faults, thrown, last, tab2, rawText, parsed>>

Speak ==
  /\ speech.utteranceRef < MaxUtterances
  /\ \E kind \in CancelEvents : Hook(speak(speech, kind))

Pause ==
  /\ speech.isSupported /\ speech.isSpeaking /\ ~speech.isPaused
  /\ Hook(pause(speech))

Resume ==
  /\ speech.isSupported /\ speech.isSpeaking /\ speech.isPaused
  /\ Hook(resume(speech))

Stop ==
  /\ speech.isSupported
  /\ \E kind \in CancelEvents : Hook(stop(speech, kind))

\* the start event of an utterance is fired when the engine begins to speak
\* it, which a paused engine does not
Dispatch ==
  \E e \in speech.pending :
    /\ e.kind = "start" => ~speech.paused
    /\ Hook(dispatch(speech, e))

\* the engine reaches the end of the utterance it is speaking
Finish ==
  /\ speech.current # 0
  /\ speech.started
  /\ ~speech.paused
  /\ Hook([speech EXCEPT
             !.pending = @ \cup {SpeechEvent(speech.current, "end", "")},
             !.current = 0,
             !.started = FALSE])

NextSpeech ==
  \/ Speak
  \/ Pause
  \/ Resume
  \/ Stop
  \/ Dispatch
  \/ Finish

SpecSpeech == InitSpeech /\ [][NextSpeech]_vars

---------------------------------------------------------------------------
(* Clearing the stored data: the page is opened on any stored payload,     *)
(* cards are added and saved, and clearAllData is called, with or without  *)
(* a backup, before the application mounts or while it runs.               *)

InitClear ==
  /\ pc = "boot"
  /\ cards = initialState.cards
  /\ filter = initialState.filter
  /\ currentCardIndex = initialState.currentCardIndex
  /\ nextId = 1
  /\ \E p \in AdapterPayloads :
       localStorage = [k \in StorageKeys \cup ClearKeys |->
                         IF k = STORAGE_KEY THEN p ELSE Missing]
  /\ faults = 0
  /\ thrown = NoError
  /\ last = [type |-> "INIT", hit |-> FALSE, id |-> "", n |-> -1,
             mode |-> "none", f |-> "all", prev |-> <<>>, failed |-> FALSE,
             tab |-> 1]
  /\ tab2 = Tab2Closed
  /\ rawText = <<>>
  /\ parsed = EmptyResult
  /\ speech = SpeechIdle(TRUE)

\* clearAllData(createBackup) at the time nextId
ClearAllData ==
  /\ pc \in {"boot", "running"}
  /\ \E createBackup \in BOOLEAN, mode \in StorageModes :
       /\ ModeAllowed(mode)
       /\ LET r == clearAllData(localStorage, createBackup, mode, nextId) IN
            /\ localStorage' = r.ls
            /\ thrown' = r.thrown
       /\ faults' = FaultsAfter(mode)
       /\ last' = Last("CLEAR_ALL_DATA", createBackup, "", nextId, mode, last.f,
                       <<localStorage[STORAGE_KEY]>>)
  /\ UNCHANGED <<pc, cards, filter, currentCardIndex, nextId, tab2, rawText,
                 parsed, speech>>

NextClear ==
  \/ Hydrate
  \/ MountEffect
  \/ Add
  \/ ClearAllData
  \/ Reload

SpecClear == InitClear /\ [][NextClear]_vars

---------------------------------------------------------------------------
(* Claims                                                                  *)

mainItem == localStorage[STORAGE_KEY]
BackupKeys == StorageKeys \ {STORAGE_KEY}
visibleCards == getVisibleCards(state)
SavingTypes == {"ADD_CARD", "UPDATE_CARD", "DELETE_CARD", "TOGGLE_MASTERED",
                "SHUFFLE_CARDS", "BULK_IMPORT", "LOAD_CARDS"}

\* C1: in every reachable state the cursor satisfies
\* 0 <= currentCardIndex < max(1, visibleCards.length).
C1_CursorInvariant ==
  /\ 0 <= currentCardIndex
  /\ currentCardIndex < Max(1, Len(visibleCards))

\* C2: while the last save succeeded, the main key holds a version-1.0
\* envelope whose cards equal the in-memory cards in content and order, and
\* loading it gives exactly the in-memory cards.
C2_PersistedAfterMutation ==
  (pc = "running" /\ faults = 0) =>
    /\ mainItem.kind = "json"
    /\ Get(mainItem.value, "version") = JString("1.0")
    /\ Get(mainItem.value, "cards").t = "array"
    /\ LET stored == Get(mainItem.value, "cards").v IN
         /\ Len(stored) = Len(cards)
         /\ \A i \in 1..Len(cards) : JSONToCard(stored[i]) = cards[i]
    /\ loadFromLocalStorage(localStorage, "ok", nextId).cards = cards

\* C2 witness: a shuffle has put the later card first and the save succeeded.
C2_Witness ==
  /\ pc = "running" /\ faults = 0
  /\ last.type = "SHUFFLE_CARDS" /\ last.mode = "ok"
  /\ Len(cards) = 2
  /\ cards[1].id = "2" /\ cards[2].id = "1"

\* C3: Navigate(targetIndex) sets the cursor to
\* max(0, min(targetIndex, visibleCards.length - 1)), 0 when nothing is
\* visible, and leaves cards and filter unchanged.
C3_NavigateClampsToView ==
  [][last'.type = "NAVIGATE" =>
       /\ currentCardIndex' =
            IF Len(visibleCards) = 0 THEN 0
            ELSE Max(0, Min(last'.n, Len(visibleCards) - 1))
       /\ cards' = cards
       /\ filter' = filter]_vars

\* C4: Update, Delete and ToggleMastered with an id that matches no card
\* leave cards, filter and currentCardIndex unchanged.
C4_UnknownIdNoOp ==
  [][(last'.type \in {"UPDATE_CARD", "DELETE_CARD", "TOGGLE_MASTERED"}
        /\ ~last'.hit) =>
       /\ cards' = cards
       /\ filter' = filter
       /\ currentCardIndex' = currentCardIndex]_vars

C6_UpdateFrame ==
  [][/\ (last'.type = "UPDATE_CARD" /\ last'.hit) =>
          LET u == UpdatePayloads[last'.n] IN
          /\ Len(cards') = Len(cards)
          /\ filter' = filter
          /\ currentCardIndex' = currentCardIndex
          /\ \A i \in 1..Len(cards) :
               IF cards[i].id # last'.id THEN cards'[i] = cards[i]
               ELSE /\ DOMAIN cards'[i] = (DOMAIN cards[i]) \cup (DOMAIN u)
                    /\ \A k \in DOMAIN cards'[i] :
                         cards'[i][k] = IF k \in DOMAIN u THEN u[k] ELSE cards[i][k]
                    /\ cards'[i].id = cards[i].id
                    /\ cards'[i].createdAt = cards[i].createdAt
                    /\ cards'[i].mastered = cards[i].mastered
     /\ (last'.type \in {"UPDATE_CARD", "TOGGLE_MASTERED", "SET_FILTER", "NAVIGATE"}) =>
          /\ Len(cards') = Len(cards)
          /\ \A i \in 1..Len(cards) : cards'[i].id = cards[i].id
     /\ (last'.type \notin {"LOAD_CARDS", "RELOAD", "HYDRATE"}) =>
          \A i \in 1..Len(cards), j \in 1..Len(cards') :
            cards[i].id = cards'[j].id => cards'[j].createdAt = cards[i].createdAt]_vars

\* C6 witness: a mastered card with optional fields was updated and is
\* still mastered, with the new term.
C6_Witness ==
  /\ last.type = "UPDATE_CARD" /\ last.hit
  /\ \E i \in 1..Len(cards) :
       /\ cards[i].id = last.id
       /\ cards[i].term = "b"
       /\ cards[i].mastered
       /\ "exampleSentences" \in DOMAIN cards[i]
       /\ cards[i].partOfSpeech = "verb"

\* C7: a card list that was saved and is loaded again comes back equal field
\* for field and in the same order, optional fields present exactly when
\* they were present before.
C7_RoundTrip ==
  (pc = "loaded" /\ last.type = "HYDRATE" /\ last.n = 0
     /\ last.mode \in {"ok", "quota"}) =>
    /\ Len(cards) = Len(last.prev)
    /\ \A i \in 1..Len(cards) :
         /\ DOMAIN cards[i] = DOMAIN last.prev[i]
         /\ cards[i] = last.prev[i]

\* C7 witness: two cards came back, one with both optional fields and an
\* unmastered one with none.
C7_Witness ==
  /\ pc = "loaded" /\ last.type = "HYDRATE" /\ last.n = 0 /\ last.mode = "ok"
  /\ Len(cards) = 2
  /\ "exampleSentences" \in DOMAIN cards[1]
  /\ "partOfSpeech" \in DOMAIN cards[1]
  /\ "partOfSpeech" \notin DOMAIN cards[2]
  /\ ~cards[2].mastered

\* C8: a save that meets a full storage raises the quota error, which
\* carries the number of cards and differs from the other two errors; the
\* stored items are left as they were and the in-memory cards are what the
\* command made them.
C8_QuotaError ==
  [][(last'.mode = "quota" /\ last'.type # "HYDRATE") =>
       /\ thrown'.message = "Storage limit exceeded"
       /\ thrown'.count = Len(cards')
       /\ thrown' # DisabledError
       /\ thrown' # UnknownError
       /\ localStorage' = localStorage
       /\ last'.type = "MOUNT" => cards' = cards
       /\ last'.type = "ADD_CARD" =>
            /\ Len(cards') = Len(cards) + 1
            /\ SubSeq(cards', 1, Len(cards)) = cards]_vars

\* C8 witness: adding the second card met a full storage; the error names 2
\* cards, memory holds 2 and the stored envelope still holds 1.
C8_Witness ==
  /\ last.type = "ADD_CARD" /\ last.mode = "quota"
  /\ thrown.count = 2
  /\ Len(cards) = 2
  /\ mainItem.kind = "json"
  /\ Len(Get(mainItem.value, "cards").v) = 1

\* C9 (as claimed): for a payload that cannot be parsed, load copies it
\* unchanged to a backup key, returns the empty list and does not throw, and
\* the startup save leaves the backup in place.
C9_BackupAlways ==
  [][/\ (pc = "boot" /\ pc' # "boot" /\ mainItem.kind = "malformed") =>
          /\ \E k \in BackupKeys : localStorage'[k] = mainItem
          /\ cards' = <<>>
          /\ pc' = "loaded"
          /\ thrown' = NoError
     /\ (pc = "loaded" /\ pc' = "running") =>
          \A k \in BackupKeys : localStorage'[k] = localStorage[k]]_vars

\* C9 (amended): the backup copy exists when storage accepts the load's
\* calls; in every case load returns the empty list without throwing and
\* changes no other item, and the startup save leaves the backup keys as
\* they were.
C9_BackupWhenWritable ==
  [][/\ (pc = "boot" /\ pc' # "boot" /\ mainItem.kind = "malformed") =>
          /\ last'.mode = "ok" =>
               /\ localStorage'[backupKey(nextId)] = mainItem
               /\ \A k \in StorageKeys \ {backupKey(nextId)} :
                    localStorage'[k] = localStorage[k]
          /\ last'.mode # "ok" => localStorage' = localStorage
          /\ cards' = <<>>
          /\ pc' = "loaded"
          /\ thrown' = NoError
     /\ (pc = "loaded" /\ pc' = "running") =>
          \A k \in BackupKeys : localStorage'[k] = localStorage[k]]_vars

\* C9 witness: the corrupted payload sits under a backup key after the
\* startup save has replaced the main item.
C9_Witness ==
  /\ pc = "running" /\ last.type = "MOUNT" /\ last.mode = "ok"
  /\ cards = <<>>
  /\ mainItem.kind = "json"
  /\ \E k \in BackupKeys : localStorage[k] = Malformed

\* C10 (as claimed): load never throws and an error that escapes save is the
\* quota error or the storage-unavailable error.
C10_OnlyTwoErrors ==
  /\ pc # "crashed"
  /\ \/ thrown = NoError
     \/ thrown = DisabledError
     \/ thrown = QuotaError(thrown.count)

\* C10 (amended): load never throws; an error that escapes save is the quota
\* error for a full storage, the storage-unavailable error for a
\* SecurityError, and for any other failure the original exception,
\* rethrown.
C10_ErrorsBySource ==
  /\ pc # "crashed"
  /\ last.type = "HYDRATE" => thrown = NoError
  /\ last.mode \in {"ok", "none"} => thrown = NoError
  /\ (last.type # "HYDRATE" /\ last.mode = "quota") => thrown = QuotaError(Len(cards))
  /\ (last.type # "HYDRATE" /\ last.mode = "security") => thrown = DisabledError
  /\ (last.type # "HYDRATE" /\ last.mode = "other") => thrown = UnknownError

\* C10 witness: a save met a failure that is neither quota nor security and
\* the exception escaped it.
C10_Witness ==
  /\ last.type \in SavingTypes
  /\ last.mode = "other"
  /\ thrown = UnknownError

\* the states the reducer can return for a command of the given type
ReducerResults(type) ==
  CASE type = "ADD_CARD" ->
         {ADD_CARD(state, p, randomUUID(nextId), nextId) : p \in AddPayloads}
    [] type = "UPDATE_CARD" ->
         {UPDATE_CARD(state, id, UpdatePayloads[u]) :
            id \in IdUniverse, u \in 1..Len(UpdatePayloads)}
    [] type = "DELETE_CARD" -> {DELETE_CARD(state, id) : id \in IdUniverse}
    [] type = "TOGGLE_MASTERED" -> {TOGGLE_MASTERED(state, id) : id \in IdUniverse}
    [] type = "SET_FILTER" -> {SET_FILTER(state, f) : f \in Filters}
    [] type = "NAVIGATE" -> {NAVIGATE(state, t) : t \in NavTargets}
    [] type = "SHUFFLE_CARDS" ->
         {SHUFFLE_CARDS(state, js) : js \in RandomDraws(Len(cards))}
    [] type = "BULK_IMPORT" ->
         {BULK_IMPORT(state, [i \in 1..k |-> ImportedCard(nextId + i - 1)]) :
            k \in 1..MaxCards}
    [] type = "LOAD_CARDS" -> {LOAD_CARDS(state, p) : p \in LoadPayloads}
    [] OTHER -> {}

\* the cards the envelope under the main key decodes to
storedCards ==
  LET entries == Get(mainItem.value, "cards").v IN
  [i \in 1..Len(entries) |-> JSONToCard(entries[i])]

C12_LastWriterWins ==
  [][/\ (last'.type \in SavingTypes \cup {"MOUNT"} /\ last'.mode = "ok") =>
          /\ mainItem'.kind = "json"
          /\ storedCards' = IF last'.tab = 1 THEN cards' ELSE tab2'.cards
     /\ last'.tab = 1 => tab2' = tab2
     /\ last'.tab = 2 => UNCHANGED <<pc, cards, filter, currentCardIndex>>]_vars

\* C12 witness: both tabs run and have saved; the second tab saved last, so
\* the main key holds its list and the first tab's card is in memory only.
C12_Witness ==
  /\ pc = "running" /\ tab2.pc = "running"
  /\ last.tab = 2 /\ last.type = "ADD_CARD" /\ last.mode = "ok"
  /\ Len(cards) = 1 /\ Len(tab2.cards) = 1
  /\ cards[1].id # tab2.cards[1].id
  /\ storedCards = tab2.cards

C14_ShufflePermutation ==
  [][last'.type = "SHUFFLE_CARDS" =>
       /\ Len(cards') = Len(cards)
       /\ \E p \in [1..Len(cards) -> 1..Len(cards)] :
            /\ \A i, j \in 1..Len(cards) : p[i] = p[j] => i = j
            /\ \A i \in 1..Len(cards) : cards'[i] = cards[p[i]]
       /\ currentCardIndex' = 0
       /\ filter' = filter]_vars

\* C14 witness: a shuffle of three cards moved every card to another place.
C14_Witness ==
  /\ last.type = "SHUFFLE_CARDS"
  /\ Len(cards) = 3
  /\ cards[1].id = "s4" /\ cards[2].id = "s1" /\ cards[3].id = "s2"
  /\ currentCardIndex = 0
  /\ filter = "needsReview"

\* C15: SetFilter(x) yields filter = x and currentCardIndex = 0 whatever the
\* cursor was, also when x is the current filter, and leaves cards
\* unchanged.
C15_FilterReset ==
  [][last'.type = "SET_FILTER" =>
       /\ filter' = last'.f
       /\ currentCardIndex' = 0
       /\ cards' = cards]_vars

\* C15 witness: the filter was set while the cursor stood on the second
\* card, and the cursor is back on the first.
C15_Witness ==
  /\ last.type = "SET_FILTER"
  /\ last.n = 1
  /\ last.f = "needsReview" /\ filter = "needsReview"
  /\ currentCardIndex = 0
  /\ Len(cards) = 2

\* C16: ToggleMastered(id) for a present id negates mastered on the card
\* with that id and changes nothing else: its other fields, every other
\* card, the order, the filter (and the cursor); applying it again with the
\* same id gives back the original cards list.
C16_ToggleMastered ==
  [][(last'.type = "TOGGLE_MASTERED" /\ last'.hit) =>
       /\ Len(cards') = Len(cards)
       /\ \A i \in 1..Len(cards) :
            IF cards[i].id = last'.id
              THEN /\ cards'[i].mastered = ~cards[i].mastered
                   /\ DOMAIN cards'[i] = DOMAIN cards[i]
                   /\ \A k \in DOMAIN cards[i] \ {"mastered"} :
                        cards'[i][k] = cards[i][k]
              ELSE cards'[i] = cards[i]
       /\ filter' = filter
       /\ currentCardIndex' = currentCardIndex
       /\ TOGGLE_MASTERED([cards |-> cards', filter |-> filter',
                           currentCardIndex |-> currentCardIndex'],
                          last'.id).cards = cards]_vars

\* C16 witness: the mastered middle card of three, which has both optional
\* fields, was toggled and now needs review.
C16_Witness ==
  /\ last.type = "TOGGLE_MASTERED" /\ last.hit /\ last.id = "s2"
  /\ Len(cards) = 3
  /\ cards[2].id = "s2"
  /\ ~cards[2].mastered
  /\ cards[2].exampleSentences = <<"e1", "e2">>
  /\ cards[1] = CardA /\ cards[3] = CardC

C18_UniqueIds ==
  \A i, j \in 1..Len(cards) : cards[i].id = cards[j].id => i = j

\* C18 witness: a card made by Add and a card made by the parser stand side
\* by side with different generated ids.
C18_Witness ==
  /\ last.type = "BULK_IMPORT" /\ last.n = 1
  /\ Len(cards) = 2
  /\ cards[1].id = randomUUID(1)
  /\ cards[2].id = randomUUID(2)

\* C19: the import flow never adds a card whose term equals, ignoring case,
\* the term of a card already in the collection or of another card of the
\* same batch: a collection without two such terms has none after an
\* import.
C19_ImportAddsNoDuplicateTerm ==
  [][(last'.type = "BULK_IMPORT"
        /\ \A i, j \in 1..Len(cards) :
             toLowerCase(cards[i].term) = toLowerCase(cards[j].term) => i = j) =>
       \A i, j \in 1..Len(cards') :
         toLowerCase(cards'[i].term) = toLowerCase(cards'[j].term) => i = j]_vars

\* C20: load never throws; it returns the empty list when the key is
\* missing, when the stored version is not the current one, when cards is
\* not a list, or when storage is unavailable; and for an otherwise valid
\* envelope it returns exactly the stored entries that have an id, string
\* term, definition and createdAt and boolean mastered, in stored order,
\* each invalid entry dropped on its own.
C20_LoadFiltersEntries ==
  [][(pc = "boot" /\ pc' # "boot") =>
       LET raw == mainItem
           readable == last'.mode \in {"ok", "quota"}
           envelope == readable /\ raw.kind = "json" /\ raw.value.t = "object"
           current == envelope /\ Get(raw.value, "version") = JString(CURRENT_VERSION)
           listed == current /\ Get(raw.value, "cards").t = "array"
           entries == Get(raw.value, "cards").v
           wellFormed ==
             {e \in Range(entries) :
                /\ e.t = "object"
                /\ Truthy(Get(e, "id"))
                /\ Get(e, "term").t = "string"
                /\ Get(e, "definition").t = "string"
                /\ Get(e, "createdAt").t = "string"
                /\ Get(e, "mastered").t = "boolean"}
           kept == SelectSeq2(entries, wellFormed)
       IN /\ pc' = "loaded"
          /\ thrown' = NoError
          /\ raw.kind = "missing" => cards' = <<>>
          /\ ~readable => cards' = <<>>
          /\ (envelope /\ ~current) => cards' = <<>>
          /\ (current /\ ~listed) => cards' = <<>>
          /\ listed => cards' = [i \in 1..Len(kept) |-> JSONToCard(kept[i])]]_vars

\* C21: Load(c) replaces cards wholesale: the cards list becomes exactly c,
\* no card held before is retained, and filter and currentCardIndex are
\* left as they were.
C21_LoadWholesale ==
  [][last'.type = "LOAD_CARDS" =>
       /\ cards' \in LoadPayloads
       /\ Len(cards') = last'.n
       /\ filter' = filter
       /\ currentCardIndex' = currentCardIndex]_vars

\* C21 witness: the stored card was loaded over a list of two and the
\* cursor still stands where it stood, on what was the second card.
C21_Witness ==
  /\ last.type = "LOAD_CARDS" /\ last.n = 1
  /\ cards = <<CardB>>
  /\ currentCardIndex = 1
  /\ filter = "all"

\* C22: filter state is preserved across sessions: once the app has been
\* reloaded and its state initialised again, filter has the value it had
\* before the reload.
C22_FilterSurvivesReload ==
  (pc = "loaded" /\ last.type = "HYDRATE" /\ last.n >= 0) => filter = last.f

\* the non-empty trimmed entries of a text, in input order
Entries(text) ==
  SelectSeq(mapTrim(IF includes(text, "\n") THEN split(text, "\n")
                    ELSE split(text, ";")),
            LAMBDA e : Len(e) > 0)

\* the entries of a text that pass every check, in input order
WellFormed(text) ==
  SelectSeq(Entries(text), LAMBDA e : ParseEntry(e, "", 0).ok)

\* the entries of a text that fail a check, in input order
IllFormed(text) ==
  SelectSeq(Entries(text), LAMBDA e : ~ParseEntry(e, "", 0).ok)

\* C23: parser tolerance.  Every non-empty trimmed entry yields exactly one
\* record: a card in successful if it passes all checks, otherwise one
\* record with one error in failed, whatever the other entries are; so N
\* well-formed lines and one malformed line give N cards and 1 failure
\* wherever the malformed line sits, and successful keeps input order.
C23_ParserTolerance ==
  pc = "parsed" =>
    LET good == WellFormed(rawText)
        bad == IllFormed(rawText)
    IN /\ Len(parsed.successful) + Len(parsed.failed) = Len(Entries(rawText))
       /\ Len(parsed.successful) = Len(good)
       /\ Len(parsed.failed) = Len(bad)
       /\ \A k \in 1..Len(parsed.successful) :
            parsed.successful[k] = ParseEntry(good[k], randomUUID(k), k).card
       /\ \A k \in 1..Len(parsed.failed) :
            /\ parsed.failed[k] = ParseEntry(bad[k], "", 0).failed
            /\ parsed.failed[k].rawText = bad[k]
            /\ Len(parsed.failed[k].error) >= 1

\* C23 witness: three lines, the malformed one in the middle, gave two
\* cards and one failure.
C23_Witness ==
  /\ pc = "parsed"
  /\ rawText = join(<<EntryPool[1], EntryPool[3], EntryPool[6]>>, "\n")
  /\ Len(parsed.successful) = 2
  /\ Len(parsed.failed) = 1
  /\ parsed.failed[1].rawText = EntryPool[3]
  /\ "partOfSpeech" \notin DOMAIN parsed.successful[1]
  /\ "partOfSpeech" \in DOMAIN parsed.successful[2]

\* what a record keeps of its entry: the fields of a card, the raw text of
\* a failure
Content(record) ==
  IF "rawText" \in DOMAIN record THEN record.rawText
  ELSE record.term \o record.definition
         \o (IF "partOfSpeech" \in DOMAIN record
               THEN record.partOfSpeech ELSE <<>>)
         \o (IF "exampleSentences" \in DOMAIN record
               THEN join(record.exampleSentences, "|") ELSE <<>>)

\* the number of semicolons in a text
Semicolons(text) == Cardinality({i \in 1..Len(text) : text[i] = ";"})

C25_FieldLayout ==
  pc = "parsed" =>
    LET good == WellFormed(rawText) IN
    \A k \in 1..Len(parsed.successful) :
      LET c == parsed.successful[k]
          fields == split(good[k], ",")
          pieces == SelectSeq(
                      mapTrim(split(join(SubSeq(fields, 4, Len(fields)), ","), "|")),
                      LAMBDA ex : Len(ex) > 0)
      IN /\ c.term = trim(fields[1])
         /\ c.definition = trim(fields[2])
         /\ "partOfSpeech" \in DOMAIN c <=>
              (Len(fields) >= 3 /\ Len(trim(fields[3])) > 0)
         /\ "partOfSpeech" \in DOMAIN c => c.partOfSpeech = trim(fields[3])
         /\ "exampleSentences" \in DOMAIN c <=>
              (Len(fields) >= 4 /\ Len(pieces) > 0)
         /\ "exampleSentences" \in DOMAIN c => c.exampleSentences = pieces

\* C26: every card in successful has mastered = false, a non-empty trimmed
\* term of at most 100 characters, a non-empty trimmed definition of at
\* most 500, a partOfSpeech (when present) of 1 to 50 and exampleSentences
\* (when present) of 1 to 5 entries of 1 to 500 characters each; every
\* entry with fewer than 2 fields or beyond one of these limits is in
\* failed and produces no card.
C26_CardLimits ==
  pc = "parsed" =>
    LET Trimmed(t) == /\ Len(t) >= 1
                      /\ t[1] \notin WhiteSpace
                      /\ t[Len(t)] \notin WhiteSpace
        es == Entries(rawText)
        Violates(e) ==
          LET fields == mapTrim(split(e, ","))
              pieces == SelectSeq(
                          mapTrim(split(join(SubSeq(fields, 4, Len(fields)), ","), "|")),
                          LAMBDA ex : Len(ex) > 0)
          IN \/ Len(fields) < 2
             \/ Len(fields[1]) = 0 \/ Len(fields[1]) > 100
             \/ Len(fields[2]) = 0 \/ Len(fields[2]) > 500
             \/ (Len(fields) >= 3 /\ Len(fields[3]) > 50)
             \/ (Len(fields) >= 4 /\ Len(pieces) > 5)
             \/ (Len(fields) >= 4 /\ \E j \in 1..Len(pieces) : Len(pieces[j]) > 500)
    IN /\ \A k \in 1..Len(parsed.successful) :
            LET c == parsed.successful[k] IN
            /\ c.mastered = FALSE
            /\ Trimmed(c.term) /\ Len(c.term) <= 100
            /\ Trimmed(c.definition) /\ Len(c.definition) <= 500
            /\ "partOfSpeech" \in DOMAIN c =>
                 Len(c.partOfSpeech) \in 1..50
            /\ "exampleSentences" \in DOMAIN c =>
                 /\ Len(c.exampleSentences) \in 1..5
                 /\ \A j \in 1..Len(c.exampleSentences) :
                      Len(c.exampleSentences[j]) \in 1..500
       /\ \A k \in 1..Len(es) :
            Violates(es[k]) =>
              \E j \in 1..Len(parsed.failed) : parsed.failed[j].rawText = es[k]
       /\ Len(parsed.successful) =
            Cardinality({k \in 1..Len(es) : ~Violates(es[k])})

\* C26 witness: a definition of 501 characters was refused with its length
\* in the message and produced no card.
C26_Witness ==
  /\ pc = "parsed"
  /\ rawText = <<"a", ",">> \o Repeat("a", MAX_MEANING_LENGTH + 1)
  /\ parsed.successful = <<>>
  /\ Len(parsed.failed) = 1
  /\ parsed.failed[1].error =
       <<"Meaning exceeds ", 500, " characters (", 501, " chars)">>

\* C27: an entry in the two-field format (term, definition) is split at
\* its first comma and everything after it is the definition, so a
\* definition that itself contains commas is kept whole in the card.
C27_DefinitionKeptWhole ==
  (pc = "parsed" /\ rawText = TextCommaInDefinition) =>
    LET first == CHOOSE i \in 1..Len(rawText) :
                   /\ rawText[i] = ","
                   /\ \A j \in 1..(i - 1) : rawText[j] # ","
    IN /\ Len(parsed.successful) = 1
       /\ parsed.successful[1].term = trim(SubSeq(rawText, 1, first - 1))
       /\ parsed.successful[1].definition =
            trim(SubSeq(rawText, first + 1, Len(rawText)))

\* C28: in every state stats counts all cards, whatever the filter: total
\* is the number of cards, mastered the number with mastered = true,
\* needsReview = total - mastered, and masteredPercentage is
\* mastered / total * 100 rounded to the nearest integer, in 0..100, and 0
\* when total = 0.
C28_Stats ==
  pc = "running" =>
    LET stats == getCardStats(state)
        total == Len(cards)
        mastered == Cardinality({i \in 1..Len(cards) : cards[i].mastered})
    IN /\ stats.total = total
       /\ stats.mastered = mastered
       /\ stats.needsReview = total - mastered
       /\ stats.masteredPercentage \in 0..100
       /\ stats.masteredPercentage =
            IF total = 0 THEN 0
            ELSE (200 * mastered + total) \div (2 * total)

\* C29: when startup completes (load in the state initialiser, then the
\* save of the mount effect) and that write succeeds, the main key holds a
\* version-1.0 envelope whose cards equal the in-memory cards, whatever the
\* key held before, so stored data that load discarded (unknown version,
\* cards that are no list, invalid entries) is overwritten; and only a
\* payload that failed to parse has a backup copy.
C29_StartupOverwrites ==
  [][/\ (last'.type = "MOUNT" /\ last'.mode = "ok") =>
          /\ pc = "loaded" /\ pc' = "running"
          /\ cards' = cards
          /\ last'.prev = <<localStorage[STORAGE_KEY]>>
          /\ localStorage'[STORAGE_KEY].kind = "json"
          /\ Get(localStorage'[STORAGE_KEY].value, "version") = JString("1.0")
          /\ LET stored == Get(localStorage'[STORAGE_KEY].value, "cards") IN
               /\ stored.t = "array"
               /\ Len(stored.v) = Len(cards)
               /\ \A i \in 1..Len(cards) : JSONToCard(stored.v[i]) = cards[i]
     /\ \A k \in BackupKeys :
          localStorage'[k] # Missing => localStorage'[k].kind = "malformed"]_vars

\* C29 witness: the key held an envelope of an unknown version with a card;
\* load discarded it, startup has written the empty list over it, and no
\* backup copy exists.
C29_Witness ==
  /\ pc = "running" /\ last.type = "MOUNT" /\ last.mode = "ok"
  /\ last.prev = <<StoredEnvelope("0.9", JArray(<<CardToJSON(CardA)>>))>>
  /\ cards = <<>>
  /\ Get(mainItem.value, "version") = JString("1.0")
  /\ Get(mainItem.value, "cards") = JArray(<<>>)
  /\ \A k \in BackupKeys : localStorage[k] = Missing

\* C30: in the study view, from a state whose cursor lies within the
\* visible view, Next moves the cursor to (i + 1) mod visibleCount and
\* Previous to (i - 1) mod visibleCount: forward from the last visible card
\* returns to the first, the cursor stays within the view, pressing Next
\* visibleCount times visits every visible card exactly once and returns
\* to the starting card; both do nothing when no card is visible.
C30_CyclicNavigation ==
  /\ [](LET n == Len(visibleCards) IN
        (pc = "running" /\ currentCardIndex < n) =>
          /\ {Press(state, k).currentCardIndex : k \in 0..(n - 1)} = 0..(n - 1)
          /\ Press(state, n) = state)
  /\ [][LET i == currentCardIndex
            n == Len(visibleCards)
        IN /\ (last'.type = "HANDLE_NEXT" /\ i < n) =>
                /\ currentCardIndex' = (i + 1) % n
                /\ i = n - 1 => currentCardIndex' = 0
           /\ (last'.type = "HANDLE_PREVIOUS" /\ i < n) =>
                currentCardIndex' = (i + n - 1) % n
           /\ (last'.type \in {"HANDLE_NEXT", "HANDLE_PREVIOUS"} /\ i < n) =>
                /\ currentCardIndex' \in 0..(n - 1)
                /\ cards' = cards /\ filter' = filter
           /\ (last'.type \in {"HANDLE_NEXT", "HANDLE_PREVIOUS"} /\ n = 0) =>
                UNCHANGED <<cards, filter, currentCardIndex>>]_vars

\* C30 witness: under the needs-review filter two of the three cards are
\* visible, and Next, pressed on the second of them, has returned to the
\* first.
C30_Witness ==
  /\ last.type = "HANDLE_NEXT" /\ last.n = 1
  /\ filter = "needsReview"
  /\ Len(cards) = 3 /\ Len(visibleCards) = 2
  /\ currentCardIndex = 0

\* C31: Shuffle is a Fisher-Yates pass that can produce every permutation:
\* with j chosen freely in 0..i at each step i = n-1 down to 1, every
\* permutation of an n-card list is a possible result, distinct choice
\* sequences give distinct results (each permutation arises from exactly
\* one of the n! choice sequences), and a pass makes n-1 exchanges.
C31_EveryPermutation ==
  /\ [](pc = "running" =>
          LET n == Len(cards)
              RECURSIVE factorial(_)
              factorial(k) == IF k <= 1 THEN 1 ELSE k * factorial(k - 1)
              results == {FisherYates(cards, n - 1, js) : js \in RandomDraws(n)}
              permutations == {[i \in 1..n |-> cards[p[i]]] : p \in Permutations(1..n)}
          IN /\ results = permutations
             /\ Cardinality(RandomDraws(n)) = factorial(n)
             /\ Cardinality(results) = factorial(n)
             /\ \A js \in RandomDraws(n) :
                  /\ DOMAIN js = 1..(n - 1)
                  /\ \A i \in 1..(n - 1) : js[i] \in 0..i)
  /\ [][last'.type = "SHUFFLE_CARDS" =>
          \E js \in RandomDraws(Len(cards)) :
            cards' = FisherYates(cards, Len(cards) - 1, js)]_vars

\* C31 witness: a shuffle has reversed the stored deck of three cards.
C31_Witness ==
  /\ last.type = "SHUFFLE_CARDS"
  /\ cards = <<CardC, CardB, CardA>>
  /\ filter = "all"

\* C32: when speak is called while an earlier utterance is in progress, then
\* in every order in which the browser dispatches the cancelled utterance's
\* end or error event and the new utterance's start event, the hook is in
\* the SPEAKING state (isSpeaking true, isPaused false) while the new
\* utterance is being spoken.
BeingSpoken ==
  /\ speech.current # 0
  /\ speech.started
  /\ ~speech.paused
  /\ \A e \in speech.pending : e.u # speech.current

C32_SpeakingAfterInterrupt ==
  (speech.interrupting /\ BeingSpoken) =>
    /\ speech.isSpeaking
    /\ ~speech.isPaused

====
